---- MODULE Spec2Model ----
(***************************************************************************)
(* Weather alert relay: the duplicate-suppression ledger                   *)
(* (backend/services/duplicateProtection.js over backend/database/db.js),  *)
(* the webhook relay (backend/services/webhookService.js) and the alert    *)
(* cycle (backend/services/alertProcessor.js) driven by the scheduler      *)
(* (backend/routes/auth.js).                                               *)
(*                                                                         *)
(* An alert is modelled by its alert_id (a natural number); a batch is a   *)
(* sequence of alerts in provider order.                                   *)
(***************************************************************************)
EXTENDS Naturals, Sequences, FiniteSets

\* ------------------------------------------------------------------------
\* Bounds of the model
\* ------------------------------------------------------------------------
\* Alert ids a provider can report in an alert cycle: 1..MaxId.
MaxId == 2
\* processAllAlerts invocations in flight at the same time.
MaxInFlight == 2
\* Calls in one behaviour of the ledger specification.
MaxCalls == 3
\* First ids of the runs of consecutive ids used as ledger batches.
MaxStart == 2
\* Orchestrator invocations followed from entry to return.
MaxRuns == 2
\* Minutes of wall-clock time followed in the conditions cycle.
MaxNow == 90

\* Milliseconds of wall-clock time followed while alerts are formatted.
MaxClock == 1500

\* ------------------------------------------------------------------------
\* Program constants
\* ------------------------------------------------------------------------
\* allIds.slice(-100)
LedgerCap == 100
\* defaultSettings.scheduleFrequency, and the fallback of parseInt(..) || 15
DefaultFrequency == 15

\* Location ids (uuid strings in the program), in locations.json order.
LocOrder == <<"loc1", "loc2">>
Locs == {LocOrder[i] : i \in 1..Len(LocOrder)}

Ids == 1..MaxId

\* processAllAlerts invocations that can overlap.
Slots == 1..MaxInFlight

VARIABLES
    ledger,     \* last-alerts.json: location id -> stored alertIds list
    locations,  \* locations.json: ids of the (enabled) locations
    webhookUrl, \* settings.webhookUrl (<<>> is the empty string)
    scheduleEnabled,        \* settings.scheduleEnabled
    scheduleFrequency,      \* settings.scheduleFrequency
    scheduledTask,          \* scheduler: the task handle, 0 for null
    currentCronExpression,  \* scheduler: the active expression, NullCron for null
    liveTasks,  \* node-cron: the tasks created and not stopped
    cyc,        \* the processAllAlerts invocations, by slot
    \* History of the behaviour, not read by the program:
    lastOp,     \* the last call of the ledger specification
    marked,     \* per location, the ids passed to markAlertsSent since the
                \* list was last cleared, in call order
    calls,      \* calls of the ledger specification so far
    delivered,  \* per location, the ids of alerts the webhook answered with 2xx
    lost,       \* per location, ids delivered by an invocation that was
                \* stopped before it passed them to markAlertsSent, and
                \* not stored since
    failedLast, \* per location, the ids whose most recent POST failed
    \* The orchestrators seen from their callers:
    job,        \* the processAllAlerts, processAllConditions or
                \* processDailyForecasts invocation being followed
    logs,       \* logs.json: the entries written since that invocation began
    lastRun,    \* settings.lastSchedulerRun and settings.lastForecastRun: the
                \* invocation that wrote the value, 0 for null
    returned,   \* what the last invocation gave back to its caller
    \* The daily forecast scheduler (scheduler/forecastScheduler.js):
    forecastEnabled,     \* settings.forecastEnabled
    forecastTime,        \* settings.forecastTime, the text "HH:MM" as digits
    forecastTask,        \* module variable forecastTask: a handle, or 0
    currentForecastCron, \* module variable currentForecastCron
    liveForecastTasks,   \* forecast cron tasks created and not stopped
    \* The conditions cycle:
    condFetched,    \* the entry of fetchResult.results being processed, with
                    \* the sendOnlyBadWeather read when the cycle began
    lastConditions, \* per location, the last snapshot stored as sent
    now,            \* Date.now(), in minutes
    sendOnlyBad,    \* settings.weatherConditionSendOnlyBad !== false
    condPosted,     \* whether the entry processed last was POSTed
    \* --- the alert formatter ---
    apiProvider,    \* settings.apiProvider ("" when unset)
    clock,          \* Date.now(), in milliseconds after Epoch
    rawAlert,       \* the raw alert the provider returns for an event
    formatted,      \* formatAlerts' output for rawAlert at its first fetch
    refetched,      \* formatAlerts' output for rawAlert at a later fetch
    renormalized,   \* formatAlerts' output for its own output `formatted`
    fetchedBy,      \* the provider fetchAllAlerts read when it fetched rawAlert
    formattedBy,    \* the provider formatAlerts read when it made `formatted`
    \* --- what the program answers and sends ---
    reply,          \* the answer to the last admin request
    forecastsToday  \* per location, the forecasts POSTed since midnight

fileVars == <<ledger, locations, webhookUrl, scheduleEnabled, scheduleFrequency>>
schedVars == <<scheduledTask, currentCronExpression, liveTasks>>
ledgerHist == <<lastOp, calls>>
cycleHist == <<delivered, lost, failedLast>>

jobVars == <<job, logs, lastRun, returned>>
fcVars == <<forecastEnabled, forecastTime, forecastTask, currentForecastCron,
           liveForecastTasks>>

\* The conditions cycle (weatherConditionProcessor.js)
condVars == <<condFetched, lastConditions, now, sendOnlyBad, condPosted>>
fmtVars == <<apiProvider, clock, rawAlert, formatted, refetched, renormalized,
            fetchedBy, formattedBy>>
outVars == <<reply, forecastsToday>>

vars == <<fileVars, schedVars, cyc, marked, ledgerHist, cycleHist, jobVars,
          fcVars, condVars, fmtVars, outVars>>

\* ------------------------------------------------------------------------
\* Array helpers
\* ------------------------------------------------------------------------
Range(s) == {s[i] : i \in 1..Len(s)}

Distinct(s) == Cardinality(Range(s)) = Len(s)

\* Array.prototype.includes
Includes(s, x) == \E i \in 1..Len(s) : s[i] = x

\* Array.prototype.slice(-n)
SliceLast(s, n) ==
    IF Len(s) <= n THEN s ELSE SubSeq(s, Len(s) - n + 1, Len(s))

\* ------------------------------------------------------------------------
\* db.js: last alerts
\* ------------------------------------------------------------------------
\* An absent key reads as the empty list (lastAlerts[locationId]?.alertIds || []);
\* the function below holds <<>> for every location without an entry.
GetLastAlertIdsForLocation(store, loc) == store[loc]

SetLastAlertForLocation(store, loc, ids) == [store EXCEPT ![loc] = ids]

ClearLastAlerts(store) == [l \in Locs |-> <<>>]

\* ------------------------------------------------------------------------
\* duplicateProtection.js
\* ------------------------------------------------------------------------
\* Variant: compares against the most recently stored id only.
FilterNewAlerts_LastIdOnly(store, loc, alerts) ==
    IF Len(alerts) = 0
    THEN <<>>
    ELSE LET lastAlertIds == GetLastAlertIdsForLocation(store, loc)
             IsNew(a) == \/ Len(lastAlertIds) = 0
                         \/ a # lastAlertIds[Len(lastAlertIds)]
         IN  SelectSeq(alerts, IsNew)

FilterNewAlerts(store, loc, alerts) ==
    IF Len(alerts) = 0
    THEN <<>>
    ELSE LET lastAlertIds == GetLastAlertIdsForLocation(store, loc)
             IsNew(a) == ~Includes(lastAlertIds, a)
         IN  SelectSeq(alerts, IsNew)

\* Variant: no trimming of the combined list.
MarkAlertsSent_NoTrim(store, loc, alerts) ==
    IF Len(alerts) = 0
    THEN store
    ELSE SetLastAlertForLocation(store, loc,
             GetLastAlertIdsForLocation(store, loc) \o alerts)

\* Variant: trims from the wrong end (allIds.slice(0, 100)).
MarkAlertsSent_KeepFirst(store, loc, alerts) ==
    IF Len(alerts) = 0
    THEN store
    ELSE LET allIds == GetLastAlertIdsForLocation(store, loc) \o alerts
         IN  SetLastAlertForLocation(store, loc,
                 IF Len(allIds) <= LedgerCap THEN allIds
                 ELSE SubSeq(allIds, 1, LedgerCap))

\* Variant: the ids of this call replace the stored list.
MarkAlertsSent_Overwrite(store, loc, alerts) ==
    IF Len(alerts) = 0
    THEN store
    ELSE SetLastAlertForLocation(store, loc, SliceLast(alerts, LedgerCap))

MarkAlertsSent(store, loc, alerts) ==
    IF Len(alerts) = 0
    THEN store
    ELSE LET existingIds == GetLastAlertIdsForLocation(store, loc)
             newIds == alerts
             allIds == existingIds \o newIds
             trimmedIds == SliceLast(allIds, LedgerCap)
         IN  SetLastAlertForLocation(store, loc, trimmedIds)

\* clearForLocation(loc) if it kept the newest stored id
ClearForLocation_KeepNewest(store, loc) ==
    SetLastAlertForLocation(store, loc, SliceLast(store[loc], 1))

ClearForLocation(store, loc) == SetLastAlertForLocation(store, loc, <<>>)

ClearAll(store) == ClearLastAlerts(store)

\* ------------------------------------------------------------------------
\* Scheduler: cron expressions
\* ------------------------------------------------------------------------
\* A cron expression "<minute> <hour> * * *": each field is "*" (star),
\* "*/n" (step) or a number (at).
Star == [kind |-> "star", n |-> 0]
Step(n) == [kind |-> "step", n |-> n]
At(n) == [kind |-> "at", n |-> n]
Cron(minute, hour) == [minute |-> minute, hour |-> hour]

\* currentCronExpression = null
NullCron == [minute |-> [kind |-> "null", n |-> 0],
             hour |-> [kind |-> "null", n |-> 0]]

FrequencyToCron(freq) ==
    LET parsed == IF freq = 0 THEN DefaultFrequency ELSE freq
        minutes == IF parsed < 1 THEN 1
                   ELSE IF parsed > 1440 THEN 1440 ELSE parsed
    IN  IF minutes = 1 THEN Cron(Star, Star)
        ELSE IF minutes < 60 THEN Cron(Step(minutes), Star)
        ELSE IF minutes = 60 THEN Cron(At(0), Star)
        ELSE IF minutes < 1440 THEN Cron(At(0), Step(minutes \div 60))
        ELSE Cron(At(0), At(0))

\* The minutes of a day, counted from midnight.
MinutesPerDay == 1440

\* node-cron runs the task of expression expr in minute t of the day: the
\* minute field matches the minute of the hour and the hour field the hour,
\* where "*" matches everything, "*/n" the multiples of n and a number itself.
Fires(expr, t) ==
    LET Matches(f, v) == \/ f.kind = "star"
                         \/ f.kind = "step" /\ v % f.n = 0
                         \/ f.kind = "at" /\ v = f.n
    IN  Matches(expr.minute, t % 60) /\ Matches(expr.hour, t \div 60)

\* cron.validate for the two fields the scheduler writes
CronValidate(expr) ==
    LET Ok(f, max) == \/ f.kind = "star"
                      \/ f.kind = "step" /\ f.n >= 1 /\ f.n <= max
                      \/ f.kind = "at" /\ f.n <= max
    IN  Ok(expr.minute, 59) /\ Ok(expr.hour, 23)

\* A time of day as the settings hold it: the text "HH:MM", written as the
\* digits before and after the colon.
DefaultForecastTime == <<<<0, 7>>, <<0, 0>>>>

\* The texts "07:00", "7:00", "08:30", "25:00" and "07:60".
Times == {DefaultForecastTime, <<<<7>>, <<0, 0>>>>, <<<<0, 8>>, <<3, 0>>>>,
          <<<<2, 5>>, <<0, 0>>>>, <<<<0, 7>>, <<6, 0>>>>}

\* parseInt of a run of decimal digits
RECURSIVE ParseInt(_)
ParseInt(digits) ==
    IF digits = <<>> THEN 0
    ELSE 10 * ParseInt(SubSeq(digits, 1, Len(digits) - 1)) + digits[Len(digits)]

\* timeToCron(timeString) returns an expression (it throws otherwise)
TimeToCronReturns(timeString) ==
    LET hours == ParseInt(timeString[1])
        minutes == ParseInt(timeString[2])
    IN  hours <= 23 /\ minutes <= 59

\* timeToCron(timeString): minutes, hours, every day
TimeToCron(timeString) ==
    Cron(At(ParseInt(timeString[2])), At(ParseInt(timeString[1])))

\* timeRegex.test(newTime) in updateForecastTime
TimeRegex(newTime) ==
    LET hh == newTime[1]
        mm == newTime[2]
    IN  /\ \/ Len(hh) = 1
           \/ Len(hh) = 2 /\ hh[1] \in {0, 1}
           \/ Len(hh) = 2 /\ hh[1] = 2 /\ hh[2] \in 0..3
        /\ Len(mm) = 2 /\ mm[1] \in 0..5

\* ------------------------------------------------------------------------
\* Initial state: the files as created, the module variables as loaded
\* ------------------------------------------------------------------------
\* A processAllAlerts or processLocationAlerts invocation that is not running.
\*   pc        "idle" | "fetching" | "posting" | "delay"
\*   locs      fetchAllAlerts: the enabled locations read at the start
\*   fi        fetchAllAlerts: index in locs of the request in flight
\*   results   fetchResult.results, in insertion order
\*   li        index in results of the location being delivered
\*   newAlerts, si, res   sendAlertsToWebhook: the batch, the index of the
\*             alert being sent, the results so far
\*   failed    <<location, id>> of the alerts whose POST failed so far
Resting ==
    [pc |-> "idle", locs |-> <<>>, fi |-> 0, results |-> <<>>, li |-> 0,
     newAlerts |-> <<>>, si |-> 0, res |-> <<>>, failed |-> {}]

\* The summary object of an orchestrator as it is created.  The five
\* counters are those of processAllAlerts; the other orchestrators leave
\* them alone.
NewSummary ==
    [endTime |-> FALSE, duration |-> FALSE, errors |-> <<>>,
     totalAlertsFetched |-> 0, newAlerts |-> 0, duplicatesSkipped |-> 0,
     alertsSent |-> 0, alertsFailed |-> 0]

\* No invocation is followed; n invocations were.
\*   kind      "alerts" | "conditions" | "forecasts"
\*   pc        "idle" | "fetching" | "posting" | "delay"
\*   locs, fi  the enabled locations read by the fetch, the request in flight
\*   todo      the locations that have something to send, in fetch order
\*   known     the locations whose alerts were all sent before
\*   sendResult  sent and failed of the sendAlertsToWebhook call in progress
\*   errors    fetchResult.errors: the locations whose fetch failed
\*   ok        the number of locations whose fetch succeeded
\*   si        index in todo of the POST in flight
\*   summary   the summary object
\*   caught    the outer catch block was entered
IdleJob(n) ==
    [kind |-> "none", pc |-> "idle", n |-> n, locs |-> <<>>, fi |-> 0,
     todo |-> <<>>, known |-> <<>>, errors |-> <<>>, ok |-> 0, si |-> 0,
     sendResult |-> [sent |-> 0, failed |-> 0],
     summary |-> NewSummary, caught |-> FALSE]

\* Nothing was returned yet.
NoReturn ==
    [n |-> 0, kind |-> "none", summary |-> NewSummary, errors |-> <<>>,
     enabled |-> 0, caught |-> FALSE]

NoOp == [op |-> "none", loc |-> "", batch |-> <<>>, out |-> <<>>,
         before |-> <<>>, again |-> FALSE]

\* lastConditions[locationId] is undefined: nothing was stored as sent.
NoCondition ==
    [classification |-> "none", temperature |-> 0, timestamp |-> 0,
     isBadWeather |-> FALSE]

\* No entry of fetchResult.results is being processed.
NoResult == [loc |-> ""]

\* No alert has been fetched or formatted.
NoAlert == [none |-> TRUE]

\* No admin request was answered yet.
NoReply == [request |-> "none", status |-> 0]

\* A URL is a sequence: its scheme, ":" and the rest; the empty string is
\* <<>>.  The webhook URL of the settings file as it is created.
DefaultWebhookUrl == <<"https", ":", "//webhook.site/1b19daad">>

\* !!settings.webhookUrl
WebhookConfigured == webhookUrl # <<>>

Init ==
    /\ ledger = [l \in Locs |-> <<>>]
    /\ locations = {LocOrder[1]}
    /\ webhookUrl = DefaultWebhookUrl
    /\ scheduleEnabled = TRUE
    /\ scheduleFrequency = DefaultFrequency
    /\ scheduledTask = 0
    /\ currentCronExpression = NullCron
    /\ liveTasks = {}
    /\ cyc = [c \in Slots |-> Resting]
    /\ lastOp = NoOp
    /\ marked = [l \in Locs |-> <<>>]
    /\ calls = 0
    /\ delivered = [l \in Locs |-> {}]
    /\ lost = [l \in Locs |-> {}]
    /\ failedLast = [l \in Locs |-> {}]
    /\ job = IdleJob(0)
    /\ logs = <<>>
    /\ lastRun = [lastSchedulerRun |-> 0, lastForecastRun |-> 0]
    /\ returned = NoReturn
    /\ forecastEnabled = FALSE
    /\ forecastTime = DefaultForecastTime
    /\ forecastTask = 0
    /\ currentForecastCron = NullCron
    /\ liveForecastTasks = {}
    /\ condFetched = NoResult
    /\ lastConditions = [l \in Locs |-> NoCondition]
    /\ now = 0
    /\ sendOnlyBad = TRUE
    /\ condPosted = FALSE
    /\ apiProvider = ""
    /\ clock = 0
    /\ rawAlert = NoAlert
    /\ formatted = NoAlert
    /\ refetched = NoAlert
    /\ renormalized = NoAlert
    /\ fetchedBy = ""
    /\ formattedBy = ""
    /\ reply = NoReply
    /\ forecastsToday = [l \in Locs |-> 0]

\* ------------------------------------------------------------------------
\* Ledger specification: the exported ledger calls applied to drawn batches
\* ------------------------------------------------------------------------
\* ids a, a+1, .., a+n-1
Run(a, n) == [i \in 1..n |-> a + i - 1]

\* Batch sizes around the cap, and the small ones.
LedgerLens == {0, 1, LedgerCap, LedgerCap + 1}

\* Batches passed to the ledger calls: runs of distinct ids, and one batch
\* that repeats an id.
LedgerBatches ==
    {Run(a, n) : a \in 1..MaxStart, n \in LedgerLens} \cup {<<1, 1>>}

\* The previous call was markAlertsSent(loc, batch).
JustMarked(loc, batch) ==
    lastOp.op = "mark" /\ lastOp.loc = loc /\ lastOp.batch = batch

notLedger == <<locations, webhookUrl, scheduleEnabled, scheduleFrequency,
               schedVars, cyc, cycleHist, jobVars, fcVars, condVars, fmtVars, outVars>>

\* filterNewAlerts(loc, batch): the ledger is read, not written.
DoFilterNewAlerts(loc, batch) ==
    /\ calls < MaxCalls
    /\ calls' = calls + 1
    /\ lastOp' = [op |-> "filter", loc |-> loc, batch |-> batch,
                  out |-> FilterNewAlerts(ledger, loc, batch),
                  before |-> ledger[loc],
                  again |-> JustMarked(loc, batch)]
    /\ UNCHANGED <<ledger, marked, notLedger>>

\* markAlertsSent(loc, batch)
DoMarkAlertsSent(loc, batch) ==
    /\ calls < MaxCalls
    /\ calls' = calls + 1
    /\ ledger' = MarkAlertsSent(ledger, loc, batch)
    /\ marked' = [marked EXCEPT ![loc] = @ \o batch]
    /\ lastOp' = [op |-> "mark", loc |-> loc, batch |-> batch, out |-> <<>>,
                  before |-> ledger[loc],
                  again |-> JustMarked(loc, batch)]
    /\ UNCHANGED notLedger

\* clearForLocation(loc)
DoClearForLocation(loc) ==
    /\ calls < MaxCalls
    /\ calls' = calls + 1
    /\ ledger' = ClearForLocation(ledger, loc)
    /\ marked' = [marked EXCEPT ![loc] = <<>>]
    /\ lastOp' = [NoOp EXCEPT !.op = "clear", !.loc = loc, !.before = ledger[loc]]
    /\ UNCHANGED notLedger

\* clearAll()
DoClearAll ==
    /\ calls < MaxCalls
    /\ calls' = calls + 1
    /\ ledger' = ClearAll(ledger)
    /\ marked' = [l \in Locs |-> <<>>]
    /\ lastOp' = [NoOp EXCEPT !.op = "clearAll"]
    /\ UNCHANGED notLedger

NextLedger ==
    \/ \E loc \in Locs, batch \in LedgerBatches : DoFilterNewAlerts(loc, batch)
    \/ \E loc \in Locs, batch \in LedgerBatches : DoMarkAlertsSent(loc, batch)
    \/ \E loc \in Locs : DoClearForLocation(loc)
    \/ DoClearAll

SpecLedger == Init /\ [][NextLedger]_vars

\* ------------------------------------------------------------------------
\* The alert cycle: alertProcessor.processAllAlerts
\* ------------------------------------------------------------------------
\* The ids of S as a batch, in increasing order.
RECURSIVE Ascending(_)
Ascending(S) ==
    IF S = {} THEN <<>>
    ELSE LET m == CHOOSE x \in S : \A y \in S : x <= y
         IN  <<m>> \o Ascending(S \ {m})

\* Batches a provider returns for one location: any set of the ids, and one
\* batch that holds the same alert_id twice.
DistinctBatches == {Ascending(S) : S \in SUBSET Ids}
AlertBatches == DistinctBatches \cup {<<1, 1>>}

InFlight(c) == cyc[c].pc # "idle"

\* "Finalize summary" and return: the invocation is over.
Finalize(r) == Resting

\* The for loop over Object.entries(fetchResult.results) from entry li on,
\* up to the first webhook POST it awaits: entries without alerts and
\* entries without new alerts are skipped; sendAlertToWebhook throws when the
\* webhook URL is unset, which ends the loop in the catch block.
RECURSIVE LoopFrom(_, _, _, _)
LoopFrom(r, li, store, url) ==
    IF li > Len(r.results)
    THEN Finalize(r)
    ELSE LET rawAlerts == r.results[li].alerts
             formattedAlerts == rawAlerts
             newAlerts == FilterNewAlerts(store, r.results[li].loc, formattedAlerts)
         IN  IF Len(rawAlerts) = 0 THEN LoopFrom(r, li + 1, store, url)
             ELSE IF Len(newAlerts) = 0 THEN LoopFrom(r, li + 1, store, url)
             ELSE IF ~url THEN Finalize(r)
             ELSE [r EXCEPT !.pc = "posting", !.li = li,
                            !.newAlerts = newAlerts, !.si = 1, !.res = <<>>]

\* db.getEnabledLocations(), in file order.
EnabledLocations == SelectSeq(LocOrder, LAMBDA l : l \in locations)

\* Invocations are interchangeable: a new one takes the first free slot.
FirstFree(c) == cyc[c].pc = "idle" /\ \A d \in Slots : d < c => InFlight(d)

\* Variant: an in-flight flag turns away a second invocation.
EnterProcessAllAlerts_Guarded(c) ==
    /\ FirstFree(c)
    /\ \A d \in Slots : ~InFlight(d)
    /\ cyc' = [cyc EXCEPT ![c] =
                 IF Len(EnabledLocations) = 0
                 THEN Finalize(@)
                 ELSE [@ EXCEPT !.pc = "fetching", !.locs = EnabledLocations,
                                !.fi = 1]]

\* processAllAlerts is entered: fetchAllAlerts reads the enabled locations
\* and requests the first one.  Nothing looks at the invocations in flight.
EnterProcessAllAlerts(c) ==
    /\ FirstFree(c)
    /\ cyc' = [cyc EXCEPT ![c] =
                 IF Len(EnabledLocations) = 0
                 THEN Finalize(@)
                 ELSE [@ EXCEPT !.pc = "fetching", !.locs = EnabledLocations,
                                !.fi = 1]]

\* scheduler.triggerNow(): POST /api/scheduler/trigger
TriggerNow(c) ==
    /\ EnterProcessAllAlerts(c)
    /\ UNCHANGED <<fileVars, schedVars, marked, ledgerHist, jobVars, fcVars, condVars, fmtVars, outVars, cycleHist>>

\* The callback of a live cron task fires.
CronFire(c) ==
    /\ liveTasks # {}
    /\ EnterProcessAllAlerts(c)
    /\ UNCHANGED <<fileVars, schedVars, marked, ledgerHist, jobVars, fcVars, condVars, fmtVars, outVars, cycleHist>>

\* alertProcessor.processLocationAlerts(locationId) is entered: the same
\* steps for the one location, which has to exist: fetch, format, filter,
\* send, mark the successful alerts, and a catch block around them.
ProcessLocationAlerts(c, loc) ==
    /\ FirstFree(c)
    /\ loc \in locations
    /\ cyc' = [cyc EXCEPT ![c] = [@ EXCEPT !.pc = "fetching", !.locs = <<loc>>,
                                           !.fi = 1]]
    /\ UNCHANGED <<fileVars, schedVars, marked, ledgerHist, jobVars, fcVars, condVars, fmtVars, outVars, cycleHist>>

\* After the answer for location fi: the next request, or the delivery loop.
AfterFetch(r, store, url) ==
    IF r.fi < Len(r.locs)
    THEN [r EXCEPT !.fi = r.fi + 1]
    ELSE LoopFrom(r, 1, store, url)

\* fetchAlertsForLocation answers with a batch for location locs[fi].
FetchOk(c, batch) ==
    /\ cyc[c].pc = "fetching"
    /\ cyc' = [cyc EXCEPT ![c] =
                 AfterFetch([@ EXCEPT !.results =
                                Append(@, [loc |-> cyc[c].locs[cyc[c].fi],
                                           alerts |-> batch])],
                            ledger, WebhookConfigured)]
    /\ UNCHANGED <<fileVars, schedVars, marked, ledgerHist, jobVars, fcVars, condVars, fmtVars, outVars, cycleHist>>

\* fetchAlertsForLocation throws for location locs[fi]: recorded in errors,
\* no entry in results.
FetchError(c) ==
    /\ cyc[c].pc = "fetching"
    /\ cyc' = [cyc EXCEPT ![c] = AfterFetch(@, ledger, WebhookConfigured)]
    /\ UNCHANGED <<fileVars, schedVars, marked, ledgerHist, jobVars, fcVars, condVars, fmtVars, outVars, cycleHist>>

\* The location and the alert of the POST in flight.
CurLoc(r) == r.results[r.li].loc
CurId(r) == r.newAlerts[r.si]

\* Variant: a failed POST is sent again at once.
PostResponse_Retry(c, ok) ==
    /\ cyc[c].pc = "posting"
    /\ cyc' = [cyc EXCEPT ![c].pc = IF ok THEN "delay" ELSE "posting",
                          ![c].res = Append(@, ok),
                          ![c].failed = IF ok THEN @
                                        ELSE @ \cup {<<CurLoc(cyc[c]), CurId(cyc[c])>>}]
    /\ delivered' = IF ok
                    THEN [delivered EXCEPT ![CurLoc(cyc[c])] = @ \cup {CurId(cyc[c])}]
                    ELSE delivered
    /\ failedLast' = [failedLast EXCEPT ![CurLoc(cyc[c])] =
                         IF ok THEN @ \ {CurId(cyc[c])} ELSE @ \cup {CurId(cyc[c])}]
    /\ UNCHANGED <<fileVars, schedVars, marked, ledgerHist, jobVars, fcVars, condVars, fmtVars, outVars, lost>>

\* axios.post for newAlerts[si] answers: 2xx (ok) or an error.
PostResponse(c, ok) ==
    /\ cyc[c].pc = "posting"
    /\ cyc' = [cyc EXCEPT ![c].pc = "delay", ![c].res = Append(@, ok),
                          ![c].failed = IF ok THEN @
                                        ELSE @ \cup {<<CurLoc(cyc[c]), CurId(cyc[c])>>}]
    /\ delivered' = IF ok
                    THEN [delivered EXCEPT ![CurLoc(cyc[c])] = @ \cup {CurId(cyc[c])}]
                    ELSE delivered
    /\ failedLast' = [failedLast EXCEPT ![CurLoc(cyc[c])] =
                         IF ok THEN @ \ {CurId(cyc[c])} ELSE @ \cup {CurId(cyc[c])}]
    /\ UNCHANGED <<fileVars, schedVars, marked, ledgerHist, jobVars, fcVars, condVars, fmtVars, outVars, lost>>

\* Variant: every alert of the batch counts as sent.
SuccessfulIdx_All(r) == 1..Len(r.newAlerts)

\* The positions kept by
\* newAlerts.filter((alert, index) => sendResult.results[index]?.success)
SuccessfulIdx(r) == {i \in 1..Len(r.newAlerts) : i <= Len(r.res) /\ r.res[i]}

\* The elements of s at the positions K, in order.
RECURSIVE PickAt(_, _, _)
PickAt(s, K, i) ==
    IF i > Len(s) THEN <<>>
    ELSE IF i \in K THEN <<s[i]>> \o PickAt(s, K, i + 1)
    ELSE PickAt(s, K, i + 1)

\* Variant: the whole batch is marked sent.
SuccessfulAlerts_WholeBatch(r) == r.newAlerts

SuccessfulAlerts(r) == PickAt(r.newAlerts, SuccessfulIdx(r), 1)

\* The 100 ms pause after a POST is over.  More alerts: sendAlertToWebhook
\* reads the settings and POSTs the next one, or throws when the URL is
\* unset.  Last alert: the successful alerts are marked sent and the loop
\* goes on with the next location.
AfterDelay(c) ==
    /\ cyc[c].pc = "delay"
    /\ LET r == cyc[c]
       IN  IF r.si < Len(r.newAlerts)
           THEN /\ cyc' = [cyc EXCEPT ![c] =
                            IF WebhookConfigured
                            THEN [r EXCEPT !.pc = "posting", !.si = r.si + 1]
                            ELSE Finalize(r)]
                /\ UNCHANGED <<ledger, marked, lost>>
           ELSE LET successfulAlerts == SuccessfulAlerts(r)
                    store == IF Len(successfulAlerts) > 0
                             THEN MarkAlertsSent(ledger, CurLoc(r), successfulAlerts)
                             ELSE ledger
                IN  /\ ledger' = store
                    /\ marked' = [marked EXCEPT ![CurLoc(r)] = @ \o successfulAlerts]
                    /\ lost' = [lost EXCEPT ![CurLoc(r)] = @ \ Range(successfulAlerts)]
                    /\ cyc' = [cyc EXCEPT ![c] =
                                 LoopFrom(r, r.li + 1, store, WebhookConfigured)]
    /\ UNCHANGED <<locations, webhookUrl, scheduleEnabled, scheduleFrequency,
                   schedVars, ledgerHist, jobVars, fcVars, condVars, fmtVars, outVars, delivered, failedLast>>

\* ------------------------------------------------------------------------
\* Scheduler: start and stop
\* ------------------------------------------------------------------------
\* The module variables of scheduler/scheduler.js as one value.
Sched == [task |-> scheduledTask, cron |-> currentCronExpression,
          live |-> liveTasks]

BecomesSched(s) ==
    /\ scheduledTask' = s.task
    /\ currentCronExpression' = s.cron
    /\ liveTasks' = s.live

\* cron.schedule(...) returns a new object: it is none of the tasks that are
\* running, and none of those the caller held when the call began.
NewTask(live, used) ==
    CHOOSE h \in 1..(Cardinality(live \cup used) + 1) : h \notin live \cup used

\* stopScheduler() if it cleared the variables without scheduledTask.stop()
StopSched_KeepsRunning(s) ==
    IF s.task # 0
    THEN [task |-> 0, cron |-> NullCron, live |-> s.live]
    ELSE s

\* stopScheduler() on the module variables s
StopSched(s) ==
    IF s.task # 0
    THEN [task |-> 0, cron |-> NullCron, live |-> s.live \ {s.task}]
    ELSE s

\* startScheduler() without the test for an unchanged configuration
StartSched_Always(s, enabled, frequency, used) ==
    LET cronExpression == FrequencyToCron(frequency)
        stopped == StopSched(s)
        task == NewTask(stopped.live, used \cup {s.task})
    IN  IF ~enabled THEN s
        ELSE IF ~CronValidate(cronExpression) THEN stopped
        ELSE [task |-> task, cron |-> cronExpression,
              live |-> stopped.live \cup {task}]

\* startScheduler() on the module variables s; used holds the handles the
\* caller has seen since its own call began.
StartSched(s, enabled, frequency, used) ==
    LET cronExpression == FrequencyToCron(frequency)
        stopped == StopSched(s)
        task == NewTask(stopped.live, used \cup {s.task})
    IN  IF ~enabled THEN s
        ELSE IF s.task # 0 /\ s.cron = cronExpression THEN s
        ELSE IF ~CronValidate(cronExpression) THEN stopped
        ELSE [task |-> task, cron |-> cronExpression,
              live |-> stopped.live \cup {task}]

\* restartScheduler(): stopScheduler() then startScheduler()
RestartSched(s, enabled, frequency) ==
    StartSched(StopSched(s), enabled, frequency, {s.task})

\* scheduler.startScheduler(): server start and POST /api/scheduler/start
StartScheduler ==
    /\ BecomesSched(StartSched(Sched, scheduleEnabled, scheduleFrequency, {}))
    /\ UNCHANGED <<fileVars, cyc, marked, ledgerHist, jobVars, fcVars, condVars, fmtVars, outVars, cycleHist>>

\* stopScheduler() if it also abandoned the invocations in flight
StopScheduler_Cancels ==
    /\ scheduledTask # 0
    /\ BecomesSched(StopSched(Sched))
    /\ cyc' = [c \in Slots |-> Resting]
    /\ UNCHANGED <<fileVars, marked, ledgerHist, jobVars, fcVars, condVars, fmtVars, outVars, cycleHist>>

\* scheduler.stopScheduler(): POST /api/scheduler/stop
StopScheduler ==
    /\ scheduledTask # 0
    /\ liveTasks' = liveTasks \ {scheduledTask}
    /\ scheduledTask' = 0
    /\ currentCronExpression' = NullCron
    /\ UNCHANGED <<fileVars, cyc, marked, ledgerHist, jobVars, fcVars, condVars, fmtVars, outVars, cycleHist>>

\* What the scheduler operations leave alone.
schedFrame == <<ledger, locations, webhookUrl, cyc, marked, ledgerHist,
                cycleHist>>

\* Frequencies an administrator sets: 90 and 100 minutes give one expression.
Frequencies == {DefaultFrequency, 90, 100}

\* A log entry written without details.
Undefined == "undefined"

\* scheduler.restartScheduler(): POST /api/scheduler/restart
RestartScheduler ==
    /\ BecomesSched(RestartSched(Sched, scheduleEnabled, scheduleFrequency))
    /\ UNCHANGED <<fileVars, schedFrame, jobVars, fcVars, condVars, fmtVars, outVars>>

\* updateFrequency and PUT /api/settings accept 1..1440.
MaxFrequency == 1440

\* Frequencies outside the accepted range.
BadFrequencies == {0, MaxFrequency + 1}

\* The answer to a request, with the value it sent for the key looked at.
Reply(request, status, sent) ==
    [request |-> request, status |-> status, sent |-> sent]

\* scheduler.updateFrequency(newFrequency) if it stored whatever it is given
UpdateFrequency_NoCheck(newFrequency) ==
    /\ scheduleFrequency' = newFrequency
    /\ BecomesSched(IF scheduledTask # 0
                    THEN RestartSched(Sched, scheduleEnabled, newFrequency)
                    ELSE Sched)
    /\ reply' = Reply("PUT /api/scheduler/frequency", 200, <<newFrequency>>)
    /\ UNCHANGED <<scheduleEnabled, schedFrame, jobVars, fcVars, condVars,
                   fmtVars, forecastsToday>>

\* scheduler.updateFrequency(newFrequency), called by PUT
\* /api/scheduler/frequency with the parseInt of the frequency in the body:
\* outside 1..1440 it throws and the route answers 400.
UpdateFrequency(newFrequency) ==
    IF newFrequency < 1 \/ newFrequency > MaxFrequency
    THEN /\ reply' = Reply("PUT /api/scheduler/frequency", 400,
                           <<newFrequency>>)
         /\ UNCHANGED <<fileVars, schedVars, cyc, marked, ledgerHist,
                        cycleHist, jobVars, fcVars, condVars, fmtVars,
                        forecastsToday>>
    ELSE /\ scheduleFrequency' = newFrequency
         /\ BecomesSched(IF scheduledTask # 0
                         THEN RestartSched(Sched, scheduleEnabled, newFrequency)
                         ELSE Sched)
         /\ reply' = Reply("PUT /api/scheduler/frequency", 200,
                           <<newFrequency>>)
         /\ UNCHANGED <<scheduleEnabled, schedFrame, jobVars, fcVars, condVars,
                        fmtVars, forecastsToday>>

\* scheduler.setSchedulerEnabled(enabled)
SetSchedulerEnabled(enabled) ==
    /\ scheduleEnabled' = enabled
    /\ BecomesSched(IF enabled
                    THEN StartSched(Sched, enabled, scheduleFrequency, {})
                    ELSE StopSched(Sched))
    /\ UNCHANGED <<scheduleFrequency, schedFrame, jobVars, fcVars, condVars, fmtVars, outVars>>

\* POST /api/scheduler/toggle
PostSchedulerToggle == SetSchedulerEnabled(~scheduleEnabled)

\* The callback of the interval task. The awaited processAllAlerts() either
\* returns or rejects (threw).
SchedulerCallback_NoCatch(threw) ==
    /\ scheduledTask \in liveTasks
    /\ logs' = <<[action |-> "scheduler_trigger", details |-> Undefined]>>
               \o (IF threw
                   THEN <<[action |-> "unhandled_rejection", details |-> "error"]>>
                   ELSE <<>>)
    /\ UNCHANGED <<fileVars, schedVars, schedFrame, job, lastRun, returned,
                   fcVars, condVars, fmtVars, outVars>>

SchedulerCallback(threw) ==
    /\ scheduledTask \in liveTasks
    /\ logs' = <<[action |-> "scheduler_trigger", details |-> Undefined]>>
               \o (IF threw
                   THEN <<[action |-> "scheduler_error", details |-> "error"]>>
                   ELSE <<>>)
    /\ UNCHANGED <<fileVars, schedVars, schedFrame, job, lastRun, returned,
                   fcVars, condVars, fmtVars, outVars>>

\* ------------------------------------------------------------------------
\* Forecast scheduler
\* ------------------------------------------------------------------------
ForecastSched == [task |-> forecastTask, cron |-> currentForecastCron,
                  live |-> liveForecastTasks]

BecomesForecastSched(s) ==
    /\ forecastTask' = s.task
    /\ currentForecastCron' = s.cron
    /\ liveForecastTasks' = s.live

\* stopForecastScheduler() on the module variables s
StopForecastSched(s) ==
    IF s.task # 0
    THEN [task |-> 0, cron |-> NullCron, live |-> s.live \ {s.task}]
    ELSE s

\* startForecastScheduler() on the module variables s. A time that
\* timeToCron rejects ends the call in the catch block, before anything is
\* stopped.
StartForecastSched(s, enabled, time, used) ==
    LET cronExpression == TimeToCron(time)
        stopped == StopForecastSched(s)
        task == NewTask(stopped.live, used \cup {s.task})
    IN  IF ~enabled THEN s
        ELSE IF ~TimeToCronReturns(time) THEN s
        ELSE IF s.task # 0 /\ s.cron = cronExpression THEN s
        ELSE IF ~CronValidate(cronExpression) THEN stopped
        ELSE [task |-> task, cron |-> cronExpression,
              live |-> stopped.live \cup {task}]

\* restartForecastScheduler()
RestartForecastSched(s, enabled, time) ==
    StartForecastSched(StopForecastSched(s), enabled, time, {s.task})

\* restartForecastScheduler(): POST /api/forecast/restart
RestartForecastScheduler ==
    /\ BecomesForecastSched(RestartForecastSched(ForecastSched, forecastEnabled,
                                                 forecastTime))
    /\ UNCHANGED <<fileVars, schedVars, schedFrame, jobVars, forecastEnabled,
                   forecastTime,
                   condVars, fmtVars, outVars>>

\* updateForecastTime(newTime): POST /api/forecast/time
UpdateForecastTime(newTime) ==
    /\ TimeRegex(newTime)
    /\ forecastTime' = newTime
    /\ BecomesForecastSched(IF forecastTask # 0
                            THEN RestartForecastSched(ForecastSched,
                                                      forecastEnabled, newTime)
                            ELSE ForecastSched)
    /\ UNCHANGED <<fileVars, schedVars, schedFrame, jobVars, forecastEnabled,
                   condVars, fmtVars, outVars>>

\* setForecastEnabled(enabled): POST /api/forecast/enable
SetForecastEnabled(enabled) ==
    /\ forecastEnabled' = enabled
    /\ BecomesForecastSched(IF enabled
                            THEN StartForecastSched(ForecastSched, enabled,
                                                    forecastTime, {})
                            ELSE StopForecastSched(ForecastSched))
    /\ UNCHANGED <<fileVars, schedVars, schedFrame, jobVars, forecastTime,
                   condVars, fmtVars, outVars>>

\* The callback of the forecast task. The awaited processDailyForecasts()
\* either returns or rejects (threw).
ForecastCallback(threw) ==
    /\ forecastTask \in liveForecastTasks
    /\ logs' = <<[action |-> "forecast_scheduler_trigger", details |-> Undefined]>>
               \o (IF threw
                   THEN <<[action |-> "forecast_scheduler_error",
                           details |-> "error"]>>
                   ELSE <<>>)
    /\ UNCHANGED <<fileVars, schedVars, schedFrame, job, lastRun, returned,
                   fcVars, condVars, fmtVars, outVars>>

\* Webhook URLs an administrator sends: the empty string, a text without a
\* scheme, a scheme other than http and https, a scheme without a host, and
\* URLs that validate.
WebhookUrls ==
    {<<>>, <<"not-a-url">>, <<"ftp", ":", "//example.com/hook">>,
     <<"https", ":">>, <<"http", ":", "//example.com/hook">>,
     <<"https", ":", "//example.com/hook">>}

\* validateWebhookUrl(url).valid: new URL(url) does not throw (there is a
\* scheme before a colon, and a host after the schemes that need one), and
\* the protocol is http: or https:
ValidateWebhookUrl(url) ==
    IF url = <<>> THEN FALSE
    ELSE LET parsed ==
                 /\ Len(url) >= 2
                 /\ url[2] = ":"
                 /\ url[1] \in {"http", "https", "ftp", "ws", "wss"}
                        => Len(url) >= 3
         IN  parsed /\ url[1] \in {"http", "https"}

\* PUT /api/settings with a body that may hold webhookUrl, scheduleFrequency,
\* scheduleEnabled, forecastEnabled and forecastTime.  A webhookUrl that is
\* not empty is validated and a scheduleFrequency is range-checked; a body
\* that fails is answered with 400.  Otherwise the body is merged into the
\* settings, and the interval scheduler is restarted if the body has
\* scheduleFrequency or scheduleEnabled.
PutSettings(updates) ==
    LET Has(key) == key # <<>>
        Merged(current, key) == IF Has(key) THEN key[1] ELSE current
        frequency == Merged(scheduleFrequency, updates.scheduleFrequency)
        enabled == Merged(scheduleEnabled, updates.scheduleEnabled)
        badUrl == /\ Has(updates.webhookUrl)
                  /\ updates.webhookUrl[1] # <<>>
                  /\ ~ValidateWebhookUrl(updates.webhookUrl[1])
        badFrequency == /\ Has(updates.scheduleFrequency)
                        /\ (frequency < 1 \/ frequency > MaxFrequency)
    IN  IF badUrl \/ badFrequency
        THEN /\ reply' = Reply("PUT /api/settings", 400, updates.webhookUrl)
             /\ UNCHANGED <<fileVars, schedVars, cyc, marked, ledgerHist,
                            cycleHist, jobVars, fcVars, condVars, fmtVars,
                            forecastsToday>>
        ELSE /\ webhookUrl' = Merged(webhookUrl, updates.webhookUrl)
             /\ scheduleFrequency' = frequency
             /\ scheduleEnabled' = enabled
             /\ forecastEnabled' = Merged(forecastEnabled,
                                          updates.forecastEnabled)
             /\ forecastTime' = Merged(forecastTime, updates.forecastTime)
             /\ BecomesSched(IF \/ Has(updates.scheduleFrequency)
                                \/ Has(updates.scheduleEnabled)
                             THEN RestartSched(Sched, enabled, frequency)
                             ELSE Sched)
             /\ reply' = Reply("PUT /api/settings", 200, updates.webhookUrl)
             /\ UNCHANGED <<ledger, locations, cyc, marked, ledgerHist,
                            cycleHist, jobVars, forecastTask,
                            currentForecastCron, liveForecastTasks, condVars,
                            fmtVars, forecastsToday>>

\* The server process starts again while nothing is in flight: the module
\* variables are as loaded, the settings are as stored, and each scheduler
\* whose flag is set is started.
ServerStart ==
    LET loaded == [task |-> 0, cron |-> NullCron, live |-> {}]
    IN  /\ \A c \in Slots : ~InFlight(c)
        /\ job.pc = "idle"
        /\ BecomesSched(StartSched(loaded, scheduleEnabled,
                                   scheduleFrequency, {}))
        /\ BecomesForecastSched(StartForecastSched(loaded, forecastEnabled,
                                                   forecastTime, {}))
        /\ UNCHANGED <<fileVars, schedFrame, jobVars, forecastEnabled,
                       forecastTime,
                   condVars, fmtVars, outVars>>

\* The bodies sent to PUT /api/settings: each key is absent, <<>>, or holds
\* one value.
Optional(values) == {<<>>} \cup {<<v>> : v \in values}

SettingsUpdates ==
    [webhookUrl : {<<>>},
     scheduleFrequency : Optional(Frequencies),
     scheduleEnabled : Optional(BOOLEAN),
     forecastEnabled : Optional(BOOLEAN),
     forecastTime : Optional(Times)]

\* The bodies that hold a webhook URL, with or without a frequency and the
\* enabled flag.
WebhookUpdates ==
    [webhookUrl : Optional(WebhookUrls),
     scheduleFrequency : Optional({DefaultFrequency, 90} \cup BadFrequencies),
     scheduleEnabled : Optional(BOOLEAN),
     forecastEnabled : {<<>>},
     forecastTime : {<<>>}]

NextSched ==
    \/ StartScheduler
    \/ StopScheduler
    \/ RestartScheduler
    \/ \E f \in Frequencies \cup BadFrequencies : UpdateFrequency(f)
    \/ \E b \in BOOLEAN : SetSchedulerEnabled(b)
    \/ PostSchedulerToggle
    \/ \E threw \in BOOLEAN : SchedulerCallback(threw)
    \/ RestartForecastScheduler
    \/ \E t \in Times : UpdateForecastTime(t)
    \/ \E b \in BOOLEAN : SetForecastEnabled(b)
    \/ \E threw \in BOOLEAN : ForecastCallback(threw)
    \/ \E u \in SettingsUpdates : PutSettings(u)
    \/ ServerStart

SpecSched == Init /\ [][NextSched]_vars

\* ------------------------------------------------------------------------
\* The settings route with webhook URLs
\* ------------------------------------------------------------------------
NextSettings ==
    \/ \E u \in WebhookUpdates : PutSettings(u)
    \/ StopScheduler
    \/ ServerStart

SpecSettings == Init /\ [][NextSettings]_vars

\* ------------------------------------------------------------------------
\* The interval scheduler over every frequency the admin API accepts
\* ------------------------------------------------------------------------
NextFrequencies ==
    \/ StartScheduler
    \/ StopScheduler
    \/ \E f \in 1..MaxFrequency : UpdateFrequency(f)

SpecFrequencies == Init /\ [][NextFrequencies]_vars

\* ------------------------------------------------------------------------
\* Scheduled alert cycles while the scheduler is stopped, disabled, restarted
\* ------------------------------------------------------------------------
\* The next step of invocation c: an answer to its request, or its timer.
Advance(c) ==
    \/ \E batch \in DistinctBatches : FetchOk(c, batch)
    \/ FetchError(c)
    \/ \E ok \in BOOLEAN : PostResponse(c, ok)
    \/ AfterDelay(c)

\* Cycles are started by the interval task only, one after the other.
NextCancel ==
    \/ \E c \in Slots : (\A d \in Slots : ~InFlight(d)) /\ CronFire(c)
    \/ \E c \in Slots, batch \in DistinctBatches : FetchOk(c, batch)
    \/ \E c \in Slots : FetchError(c)
    \/ \E c \in Slots, ok \in BOOLEAN : PostResponse(c, ok)
    \/ \E c \in Slots : AfterDelay(c)
    \/ StartScheduler
    \/ StopScheduler
    \/ RestartScheduler
    \/ \E b \in BOOLEAN : SetSchedulerEnabled(b)
    \/ PostSchedulerToggle

\* Every request is answered or times out (axios timeout 30000) and every
\* timer fires: an invocation in flight takes its next step.
SpecCancel ==
    Init /\ [][NextCancel]_vars /\ \A c \in Slots : WF_vars(Advance(c))

\* ------------------------------------------------------------------------
\* Admin requests and the process
\* ------------------------------------------------------------------------
\* PUT /api/settings with a webhookUrl: a non-empty value is validated (a
\* valid one is stored: set), an empty one is stored as it is (~set).
PutSettingsWebhookUrl(set) ==
    /\ WebhookConfigured # set
    /\ webhookUrl' = IF set THEN DefaultWebhookUrl ELSE <<>>
    /\ UNCHANGED <<ledger, locations, scheduleEnabled, scheduleFrequency,
                   schedVars, cyc, marked, ledgerHist, jobVars, fcVars, condVars, fmtVars, outVars, cycleHist>>

\* DELETE /api/locations/:id
DeleteLocation(loc) ==
    /\ loc \in locations
    /\ locations' = locations \ {loc}
    /\ ledger' = ClearForLocation(ledger, loc)
    /\ marked' = [marked EXCEPT ![loc] = <<>>]
    /\ UNCHANGED <<webhookUrl, scheduleEnabled, scheduleFrequency, schedVars,
                   cyc, ledgerHist, jobVars, fcVars, condVars, fmtVars, outVars, cycleHist>>

\* POST /api/logs/clear-duplicates
ClearDuplicates ==
    /\ ledger' = ClearAll(ledger)
    /\ marked' = [l \in Locs |-> <<>>]
    /\ UNCHANGED <<locations, webhookUrl, scheduleEnabled, scheduleFrequency,
                   schedVars, cyc, ledgerHist, jobVars, fcVars, condVars, fmtVars, outVars, cycleHist>>

\* Alerts of the batch being sent that got a 2xx answer: delivered, and not
\* yet passed to markAlertsSent.
Uncommitted(r) ==
    IF r.pc \in {"posting", "delay"}
    THEN {<<CurLoc(r), r.newAlerts[i]>> :
             i \in {j \in 1..Len(r.res) : r.res[j]}}
    ELSE {}

\* The process stops and is started again: every invocation in flight and
\* the cron task are gone, the files (ledger, settings, locations) stay.
Crash ==
    /\ \E c \in Slots : InFlight(c)
    /\ cyc' = [c \in Slots |-> Resting]
    /\ scheduledTask' = 0
    /\ currentCronExpression' = NullCron
    /\ liveTasks' = {}
    /\ lost' = [l \in Locs |->
                  lost[l] \cup {i \in Ids \ Range(ledger[l]) :
                                  \E c \in Slots : <<l, i>> \in Uncommitted(cyc[c])}]
    /\ job' = IdleJob(job.n)
    /\ forecastTask' = 0
    /\ currentForecastCron' = NullCron
    /\ liveForecastTasks' = {}
    /\ UNCHANGED <<fileVars, marked, ledgerHist, delivered, failedLast,
                   logs, lastRun, returned, forecastEnabled, forecastTime,
                   condVars, fmtVars, outVars>>

Next ==
    \/ \E c \in Slots : TriggerNow(c)
    \/ \E c \in Slots : CronFire(c)
    \/ \E c \in Slots, loc \in Locs : ProcessLocationAlerts(c, loc)
    \/ \E c \in Slots, batch \in AlertBatches : FetchOk(c, batch)
    \/ \E c \in Slots : FetchError(c)
    \/ \E c \in Slots, ok \in BOOLEAN : PostResponse(c, ok)
    \/ \E c \in Slots : AfterDelay(c)
    \/ StartScheduler
    \/ StopScheduler
    \/ \E set \in BOOLEAN : PutSettingsWebhookUrl(set)
    \/ \E loc \in Locs : DeleteLocation(loc)
    \/ ClearDuplicates
    \/ Crash

Spec == Init /\ [][Next]_vars

\* Alert cycles one after the other, batches with distinct ids, no clearing
\* of the ledger and no stop of the process.
NextSerial ==
    \/ \E c \in Slots : (\A d \in Slots : ~InFlight(d)) /\ TriggerNow(c)
    \/ \E c \in Slots : (\A d \in Slots : ~InFlight(d)) /\ CronFire(c)
    \/ \E c \in Slots, batch \in DistinctBatches : FetchOk(c, batch)
    \/ \E c \in Slots : FetchError(c)
    \/ \E c \in Slots, ok \in BOOLEAN : PostResponse(c, ok)
    \/ \E c \in Slots : AfterDelay(c)
    \/ StartScheduler
    \/ StopScheduler
    \/ \E set \in BOOLEAN : PutSettingsWebhookUrl(set)

SpecSerial == Init /\ [][NextSerial]_vars

\* POST /api/locations: a location with a new id is added, enabled.
PostLocation(loc) ==
    /\ loc \notin locations
    /\ locations' = locations \cup {loc}
    /\ UNCHANGED <<ledger, webhookUrl, scheduleEnabled, scheduleFrequency,
                   schedVars, cyc, marked, ledgerHist, jobVars, fcVars, condVars, fmtVars, outVars, cycleHist>>

\* Alert cycles one after the other over the locations the admin has added.
NextIsolation ==
    \/ NextSerial
    \/ \E loc \in Locs : PostLocation(loc)

SpecIsolation == Init /\ [][NextIsolation]_vars

\* ------------------------------------------------------------------------
\* The orchestrators: processAllAlerts, processAllConditions and
\* processDailyForecasts from entry to return
\* ------------------------------------------------------------------------
\* What a location's fetch gives is drawn: "new" (something to send), "none"
\* (fetched, nothing to send: no alerts, weather that is not reported, a
\* forecast without periods), "known" (an alert that was sent before) or
\* "error".
Kinds == {"alerts", "conditions", "forecasts"}
FetchOutcomes == {"new", "none", "known", "error"}

\* The four variables an orchestrator step writes, as one record.
World == [job |-> job, logs |-> logs, lastRun |-> lastRun, returned |-> returned]

Becomes(w) ==
    /\ job' = w.job
    /\ logs' = w.logs
    /\ lastRun' = w.lastRun
    /\ returned' = w.returned

\* The action names of the log entries of each orchestrator.
StartAction(kind) ==
    IF kind = "alerts" THEN "process_start"
    ELSE IF kind = "conditions" THEN "condition_process_start"
    ELSE "forecast_process_start"

ErrorAction(kind) ==
    IF kind = "alerts" THEN "process_error"
    ELSE IF kind = "conditions" THEN "condition_process_error"
    ELSE "forecast_process_error"

CompleteAction(kind) ==
    IF kind = "alerts" THEN "process_complete"
    ELSE IF kind = "conditions" THEN "condition_process_complete"
    ELSE "forecast_process_complete"

\* db.addLog({action, details})
AddLog(w, action, details) ==
    [w EXCEPT !.logs = Append(@, [action |-> action, details |-> details])]

\* return summary
Return(w, summary) ==
    [w EXCEPT !.returned = [n |-> w.job.n, kind |-> w.job.kind,
                            summary |-> summary, errors |-> w.job.errors,
                            enabled |-> Len(w.job.locs),
                            caught |-> w.job.caught],
              !.job = IdleJob(w.job.n)]

\* "Finalize summary": endTime and duration are set, alert and forecast
\* cycles store their last run time, the completion entry is logged with
\* the summary, and the summary is returned.
FinalizeJob(w) ==
    LET r == w.job
        summary == [r.summary EXCEPT !.endTime = TRUE, !.duration = TRUE]
        w1 == IF r.kind = "alerts"
              THEN [w EXCEPT !.lastRun.lastSchedulerRun = r.n]
              ELSE IF r.kind = "forecasts"
              THEN [w EXCEPT !.lastRun.lastForecastRun = r.n]
              ELSE w
    IN  Return(AddLog(w1, CompleteAction(r.kind), summary), summary)

\* Variant: the outer catch block logs the error and leaves the summary alone.
CatchSystem_LogOnly(w) ==
    FinalizeJob(AddLog([w EXCEPT !.job.caught = TRUE],
                       ErrorAction(w.job.kind), NewSummary))

\* The outer catch block: a 'System' entry in the summary's errors and an
\* error log entry; the function goes on to finalize.
CatchSystem(w) ==
    LET w1 == [w EXCEPT !.job.summary.errors = Append(@, "System"),
                        !.job.caught = TRUE]
    IN  FinalizeJob(AddLog(w1, ErrorAction(w.job.kind), NewSummary))

\* processDailyForecasts, "No forecasts to send": a warning is logged,
\* endTime and duration are set and the summary is returned from inside the
\* try block.
NoForecastsReturn(w) ==
    LET summary == [w.job.summary EXCEPT !.endTime = TRUE, !.duration = TRUE]
    IN  Return(AddLog(w, "forecast_process", NewSummary), summary)

\* "Record any fetch errors": alert and condition cycles assign the list to
\* summary.errors when it is not empty, forecast cycles push its entries.
RecordFetchErrors(w) ==
    LET r == w.job
    IN  IF Len(r.errors) = 0 THEN w
        ELSE IF r.kind = "forecasts"
        THEN [w EXCEPT !.job.summary.errors = @ \o r.errors]
        ELSE [w EXCEPT !.job.summary.errors = r.errors]

\* processAllAlerts' loop over fetchResult.results from entry i to entry
\* upto of locs: a location with alerts has them formatted and filtered, and
\* totalAlertsFetched, duplicatesSkipped and newAlerts are added to.
RECURSIVE CountAlerts(_, _, _, _)
CountAlerts(summary, r, i, upto) ==
    IF i > upto THEN summary
    ELSE LET loc == r.locs[i]
             formattedAlerts == IF loc \in Range(r.todo) \cup Range(r.known)
                                THEN 1 ELSE 0
             newAlerts == IF loc \in Range(r.todo) THEN 1 ELSE 0
         IN  CountAlerts(
                 [summary EXCEPT
                     !.totalAlertsFetched = @ + formattedAlerts,
                     !.duplicatesSkipped = @ + (formattedAlerts - newAlerts),
                     !.newAlerts = @ + newAlerts],
                 r, i + 1, upto)

\* The delivery loop from entry si of todo on, up to the POST it awaits.
\* An alert cycle first counts the locations up to that of entry si.
\* sendAlertToWebhook throws when the webhook URL is unset: forecast cycles
\* catch it per forecast and go on, the other cycles land in the outer catch.
RECURSIVE ContinueJob(_, _, _)
ContinueJob(w, si, url) ==
    LET r == w.job
        Index(l) == CHOOSE i \in 1..Len(r.locs) : r.locs[i] = l
        from == IF si = 1 THEN 1 ELSE Index(r.todo[si - 1]) + 1
        upto == IF si > Len(r.todo) THEN Len(r.locs) ELSE Index(r.todo[si])
        wc == IF r.kind = "alerts"
              THEN [w EXCEPT !.job.summary = CountAlerts(@, r, from, upto)]
              ELSE w
    IN  IF si > Len(r.todo)
        THEN FinalizeJob(RecordFetchErrors(wc))
        ELSE IF url
        THEN [wc EXCEPT !.job.pc = "posting", !.job.si = si]
        ELSE IF r.kind = "forecasts"
        THEN ContinueJob([w EXCEPT !.job.summary.errors = Append(@, r.todo[si])],
                         si + 1, url)
        ELSE CatchSystem(wc)

\* After the fetch of every location.  fetchAllForecasts reports success
\* when at least one location was fetched, and processDailyForecasts throws
\* 'Failed to fetch forecasts' otherwise.
AfterFetchJob(w, url) ==
    IF w.job.kind = "forecasts" /\ w.job.ok = 0 THEN CatchSystem(w)
    ELSE IF w.job.kind = "forecasts" /\ Len(w.job.todo) = 0
    THEN NoForecastsReturn(w)
    ELSE ContinueJob(w, 1, url)

\* An orchestrator is entered: the start entry is logged, the summary is
\* created and the fetch reads the enabled locations.  Without enabled
\* locations the fetch returns at once.
StartJob(kind) ==
    /\ job.pc = "idle"
    /\ job.n < MaxRuns
    /\ LET r == [IdleJob(job.n + 1) EXCEPT !.kind = kind, !.pc = "fetching",
                                           !.locs = EnabledLocations, !.fi = 1]
           w == [World EXCEPT !.job = r, !.returned = NoReturn,
                              !.logs = <<[action |-> StartAction(kind),
                                          details |-> NewSummary]>>]
       IN  Becomes(IF Len(r.locs) = 0 THEN AfterFetchJob(w, WebhookConfigured) ELSE w)
    /\ UNCHANGED <<fileVars, schedVars, cyc, marked, ledgerHist, cycleHist, fcVars, condVars, fmtVars, outVars>>

\* The fetch for location locs[fi] is over, with the outcome drawn.
JobFetched(outcome) ==
    /\ job.pc = "fetching"
    /\ outcome = "known" => job.kind = "alerts"
    /\ LET loc == job.locs[job.fi]
           r == [job EXCEPT !.fi = @ + 1,
                            !.todo = IF outcome = "new" THEN Append(@, loc) ELSE @,
                            !.known = IF outcome = "known" THEN Append(@, loc) ELSE @,
                            !.errors = IF outcome = "error" THEN Append(@, loc) ELSE @,
                            !.ok = IF outcome = "error" THEN @ ELSE @ + 1]
           w == [World EXCEPT !.job = r]
       IN  Becomes(IF r.fi > Len(r.locs) THEN AfterFetchJob(w, WebhookConfigured) ELSE w)
    /\ UNCHANGED <<fileVars, schedVars, cyc, marked, ledgerHist, cycleHist, fcVars, condVars, fmtVars, outVars>>

\* axios.post for todo[si] answers.  A forecast cycle records a failure
\* under the location and sends the next forecast; the relay of the other
\* cycles counts the result as sent or failed and pauses 100 ms.
JobPosted(ok) ==
    /\ job.pc = "posting"
    /\ IF job.kind = "forecasts"
       THEN /\ Becomes(ContinueJob(
                    [World EXCEPT !.job.summary.errors =
                                      IF ok THEN @ ELSE Append(@, job.todo[job.si])],
                    job.si + 1, WebhookConfigured))
            /\ forecastsToday' =
                   IF ok THEN [forecastsToday EXCEPT ![job.todo[job.si]] = @ + 1]
                   ELSE forecastsToday
       ELSE /\ Becomes([World EXCEPT
                           !.job.pc = "delay",
                           !.job.sendResult =
                               IF job.kind = "alerts"
                               THEN [sent |-> IF ok THEN 1 ELSE 0,
                                     failed |-> IF ok THEN 0 ELSE 1]
                               ELSE @])
            /\ UNCHANGED forecastsToday
    /\ UNCHANGED <<fileVars, schedVars, cyc, marked, ledgerHist, cycleHist,
                   fcVars, condVars, fmtVars, reply>>

\* The pause of sendAlertsToWebhook is over: it returns, an alert cycle adds
\* sent and failed to its summary, and the loop goes on.
JobAfterDelay ==
    /\ job.pc = "delay"
    /\ Becomes(ContinueJob(
           [World EXCEPT
               !.job.summary.alertsSent = @ + job.sendResult.sent,
               !.job.summary.alertsFailed = @ + job.sendResult.failed,
               !.job.sendResult = [sent |-> 0, failed |-> 0]],
           job.si + 1, WebhookConfigured))
    /\ UNCHANGED <<fileVars, schedVars, cyc, marked, ledgerHist, cycleHist, fcVars, condVars, fmtVars, outVars>>

\* Midnight: a new calendar day begins.
NewDay ==
    /\ \E loc \in Locs : forecastsToday[loc] # 0
    /\ forecastsToday' = [loc \in Locs |-> 0]
    /\ UNCHANGED <<fileVars, schedVars, cyc, marked, ledgerHist, cycleHist,
                   jobVars, fcVars, condVars, fmtVars, reply>>

\* One orchestrator invocation at a time, while the admin changes the
\* locations and the webhook URL.
NextJobs ==
    \/ \E kind \in Kinds : StartJob(kind)
    \/ \E outcome \in FetchOutcomes : JobFetched(outcome)
    \/ \E ok \in BOOLEAN : JobPosted(ok)
    \/ JobAfterDelay
    \/ NewDay
    \/ \E set \in BOOLEAN : PutSettingsWebhookUrl(set)
    \/ \E loc \in Locs : PostLocation(loc)
    \/ \E loc \in Locs : DeleteLocation(loc)

SpecJobs == Init /\ [][NextJobs]_vars

\* ------------------------------------------------------------------------
\* Weather conditions: classification and the conditions cycle
\* ------------------------------------------------------------------------
\* A reading as fetchConditionsForLocation returns it. Rain and snow are in
\* hundredths of an inch, visibility in tenths of a mile (0 for null or 0),
\* and description is the set of the words looked for that occur in the
\* lower-cased text.
Words == {"thunderstorm", "storm", "tornado", "hurricane", "fog", "mist", "haze"}

Descriptions ==
    {{}, {"fog"}, {"storm"}, {"thunderstorm", "storm"}, {"tornado"},
     {"hurricane"}, {"mist", "tornado"}}

Reading(temp, feelsLike, humidity, windSpeed, description, rain, snow, visibility) ==
    [temp |-> temp, feelsLike |-> feelsLike, humidity |-> humidity,
     windSpeed |-> windSpeed, description |-> description, rain |-> rain,
     snow |-> snow, visibility |-> visibility]

\* Math.abs(a - b)
AbsDiff(a, b) == IF a < b THEN b - a ELSE a - b

\* classifyWeather(conditions) if the humidity rule assigned 'fair' whatever
\* the level was
ClassifyWeather_HumidityLowers(conditions) ==
    LET c == conditions
        s0 == "good"
        s1 == IF c.temp > 95 THEN "bad"
              ELSE IF c.temp < 32 THEN "bad"
              ELSE IF c.temp < 40 \/ c.temp > 90
                   THEN (IF s0 = "good" THEN "fair" ELSE s0)
              ELSE s0
        s2 == IF /\ c.feelsLike # c.temp /\ AbsDiff(c.feelsLike, c.temp) > 10
                 /\ (c.feelsLike > 100 \/ c.feelsLike < 25)
              THEN "bad" ELSE s1
        s3 == IF c.windSpeed > 25 THEN "bad"
              ELSE IF c.windSpeed > 15
                   THEN (IF s2 = "good" THEN "fair" ELSE s2)
              ELSE s2
        s4 == IF c.rain # 0 /\ c.rain > 50 THEN "bad"
              ELSE IF c.rain # 0 /\ c.rain > 0
                   THEN (IF s3 = "good" THEN "fair" ELSE s3)
              ELSE s3
        s5 == IF c.snow # 0 /\ c.snow > 0 THEN "bad" ELSE s4
        s6 == IF c.humidity > 85 THEN "fair" ELSE s5
        s7 == IF c.visibility # 0 /\ c.visibility < 10 THEN "bad" ELSE s6
        severity ==
              IF "thunderstorm" \in c.description \/ "storm" \in c.description
              THEN "severe"
              ELSE IF "tornado" \in c.description \/ "hurricane" \in c.description
              THEN "severe"
              ELSE IF \/ "fog" \in c.description \/ "mist" \in c.description
                      \/ "haze" \in c.description
                   THEN (IF s7 = "good" THEN "fair" ELSE s7)
              ELSE s7
    IN  [classification |-> severity,
         isGood |-> severity = "good",
         isBad |-> severity = "bad" \/ severity = "severe"]

\* classifyWeather(conditions) if strong wind only raised good to fair
ClassifyWeather_WindFair(conditions) ==
    LET c == conditions
        s0 == "good"
        s1 == IF c.temp > 95 THEN "bad"
              ELSE IF c.temp < 32 THEN "bad"
              ELSE IF c.temp < 40 \/ c.temp > 90
                   THEN (IF s0 = "good" THEN "fair" ELSE s0)
              ELSE s0
        s2 == IF /\ c.feelsLike # c.temp /\ AbsDiff(c.feelsLike, c.temp) > 10
                 /\ (c.feelsLike > 100 \/ c.feelsLike < 25)
              THEN "bad" ELSE s1
        s3 == IF c.windSpeed > 15
              THEN (IF s2 = "good" THEN "fair" ELSE s2)
              ELSE s2
        s4 == IF c.rain # 0 /\ c.rain > 50 THEN "bad"
              ELSE IF c.rain # 0 /\ c.rain > 0
                   THEN (IF s3 = "good" THEN "fair" ELSE s3)
              ELSE s3
        s5 == IF c.snow # 0 /\ c.snow > 0 THEN "bad" ELSE s4
        s6 == IF c.humidity > 85
              THEN (IF s5 # "bad" THEN "fair" ELSE s5)
              ELSE s5
        s7 == IF c.visibility # 0 /\ c.visibility < 10 THEN "bad" ELSE s6
        severity ==
              IF "thunderstorm" \in c.description \/ "storm" \in c.description
              THEN "severe"
              ELSE IF "tornado" \in c.description \/ "hurricane" \in c.description
              THEN "severe"
              ELSE IF \/ "fog" \in c.description \/ "mist" \in c.description
                      \/ "haze" \in c.description
                   THEN (IF s7 = "good" THEN "fair" ELSE s7)
              ELSE s7
    IN  [classification |-> severity,
         isGood |-> severity = "good",
         isBad |-> severity = "bad" \/ severity = "severe"]

\* classifyWeather(conditions): the rules in the order of the code, each
\* one working on the level the rules before it left.
ClassifyWeather(conditions) ==
    LET c == conditions
        s0 == "good"
        s1 == IF c.temp > 95 THEN "bad"
              ELSE IF c.temp < 32 THEN "bad"
              ELSE IF c.temp < 40 \/ c.temp > 90
                   THEN (IF s0 = "good" THEN "fair" ELSE s0)
              ELSE s0
        s2 == IF /\ c.feelsLike # c.temp /\ AbsDiff(c.feelsLike, c.temp) > 10
                 /\ (c.feelsLike > 100 \/ c.feelsLike < 25)
              THEN "bad" ELSE s1
        s3 == IF c.windSpeed > 25 THEN "bad"
              ELSE IF c.windSpeed > 15
                   THEN (IF s2 = "good" THEN "fair" ELSE s2)
              ELSE s2
        s4 == IF c.rain # 0 /\ c.rain > 50 THEN "bad"
              ELSE IF c.rain # 0 /\ c.rain > 0
                   THEN (IF s3 = "good" THEN "fair" ELSE s3)
              ELSE s3
        s5 == IF c.snow # 0 /\ c.snow > 0 THEN "bad" ELSE s4
        s6 == IF c.humidity > 85
              THEN (IF s5 # "bad" THEN "fair" ELSE s5)
              ELSE s5
        s7 == IF c.visibility # 0 /\ c.visibility < 10 THEN "bad" ELSE s6
        severity ==
              IF "thunderstorm" \in c.description \/ "storm" \in c.description
              THEN "severe"
              ELSE IF "tornado" \in c.description \/ "hurricane" \in c.description
              THEN "severe"
              ELSE IF \/ "fog" \in c.description \/ "mist" \in c.description
                      \/ "haze" \in c.description
                   THEN (IF s7 = "good" THEN "fair" ELSE s7)
              ELSE s7
    IN  [classification |-> severity,
         isGood |-> severity = "good",
         isBad |-> severity = "bad" \/ severity = "severe"]

\* Readings that meet every rule on both sides of its thresholds.
AllReadings ==
    {Reading(t, f, h, w, d, r, sn, v) :
        t \in {20, 35, 70, 93, 100}, f \in {10, 70, 110}, h \in {50, 90},
        w \in {5, 20, 26}, d \in Descriptions, r \in {0, 30, 60},
        sn \in {0, 10}, v \in {0, 5, 100}}

\* Pleasant and hot readings that differ in temperature only.
GateReadings ==
    {Reading(t, t, 50, 5, {}, 0, 0, 100) : t \in {70, 72, 76, 96}}

\* settings.weatherConditionGoodWeatherInterval || 60, in minutes
DefaultGoodWeatherInterval == 60

\* formatWeatherCondition: the fields of the payload that the cycle reads
FormatWeatherCondition(conditions, classification) ==
    [classification |-> classification.classification,
     temperature |-> conditions.temp,
     timestamp |-> now,
     isBadWeather |-> classification.isBad]

\* shouldSendConditionUpdate, given lastConditions[locationId]
ShouldSendConditionUpdate(lastCondition, newCondition) ==
    LET timeSinceLastSent == now - lastCondition.timestamp
        minIntervalForGoodWeather == DefaultGoodWeatherInterval
        tempDiff == AbsDiff(newCondition.temperature, lastCondition.temperature)
    IN  IF lastCondition = NoCondition THEN TRUE
        ELSE IF lastCondition.classification # newCondition.classification
             THEN TRUE
        ELSE IF newCondition.isBadWeather THEN TRUE
        ELSE IF timeSinceLastSent < minIntervalForGoodWeather THEN FALSE
        ELSE IF tempDiff >= 5 THEN TRUE
        ELSE timeSinceLastSent >= minIntervalForGoodWeather

condFrame == <<fileVars, schedVars, cyc, marked, ledgerHist, cycleHist,
               jobVars, fcVars, fmtVars, outVars>>

\* db.getLastConditions: the stored map from location to the last snapshot
\* that was sent for it.
GetLastConditions == lastConditions

\* db.updateLastConditions: the map replaces the stored one.
UpdateLastConditions(map) == lastConditions' = map

\* storeLastCondition
StoreLastCondition(locationId, condition) ==
    UpdateLastConditions([GetLastConditions EXCEPT ![locationId] = condition])

\* processAllConditions reads the settings and calls fetchAllConditions:
\* the reading of one enabled location arrives and is classified.
FetchConditions(loc, conditions) ==
    /\ condFetched = NoResult
    /\ loc \in locations
    /\ condFetched' = [loc |-> loc, conditions |-> conditions,
                       classification |-> ClassifyWeather(conditions),
                       sendOnlyBadWeather |-> sendOnlyBad]
    /\ UNCHANGED <<condFrame, lastConditions, now, sendOnlyBad, condPosted>>

\* processAllConditions: one round of the loop over fetchResult.results.
\* The webhook answers the POST with success (ok) or not.
ProcessCondition(ok) ==
    /\ condFetched # NoResult
    /\ LET data == condFetched
           skipped == data.sendOnlyBadWeather /\ data.classification.isGood
           formattedCondition ==
               FormatWeatherCondition(data.conditions, data.classification)
           shouldSend ==
               ShouldSendConditionUpdate(GetLastConditions[data.loc],
                                         formattedCondition)
           posted == ~skipped /\ shouldSend /\ WebhookConfigured
       IN  /\ condPosted' = posted
           /\ IF posted /\ ok
              THEN StoreLastCondition(data.loc, formattedCondition)
              ELSE UNCHANGED lastConditions
    /\ condFetched' = NoResult
    /\ UNCHANGED <<condFrame, now, sendOnlyBad>>

\* Half an interval of wall-clock time passes.
Tick ==
    /\ now < MaxNow
    /\ now' = now + DefaultGoodWeatherInterval \div 2
    /\ UNCHANGED <<condFrame, condFetched, lastConditions, sendOnlyBad,
                   condPosted>>

\* PUT /api/settings with a body that holds weatherConditionSendOnlyBad
PutSettingsSendOnlyBad(onlyBad) ==
    /\ sendOnlyBad' = onlyBad
    /\ UNCHANGED <<condFrame, condFetched, lastConditions, now, condPosted>>

NextConditions ==
    \/ /\ condFetched = NoResult
       /\ \E loc \in locations, conditions \in GateReadings :
              FetchConditions(loc, conditions)
    \/ \E ok \in BOOLEAN : ProcessCondition(ok)
    \/ Tick
    \/ \E onlyBad \in BOOLEAN : PutSettingsSendOnlyBad(onlyBad)

SpecConditions == Init /\ [][NextConditions]_vars

\* Every reading is fetched, classified and processed.
NextClassify ==
    \/ /\ condFetched = NoResult
       /\ \E loc \in locations, conditions \in AllReadings :
              FetchConditions(loc, conditions)
    \/ \E ok \in BOOLEAN : ProcessCondition(ok)

SpecClassify == Init /\ [][NextClassify]_vars

\* ------------------------------------------------------------------------
\* The alert formatter: alertFormatter.formatAlerts
\* ------------------------------------------------------------------------
\* A text is a sequence: identifiers, types, zones and timestamps are
\* sequences of characters; event names, headlines and tag arrays are
\* sequences of words.  The absent field and the empty text are both <<>>.
\* A severity or significance is a string, "" when absent, and a priority
\* number n is <<n>>.  Fields that decide neither alert_id nor severity
\* (description, area, the start and end times, location) are left out.

\* rawAlert.key of a text field
Get(alert, key) == IF key \in DOMAIN alert THEN alert[key] ELSE <<>>

\* rawAlert.key of a severity or significance field
GetString(alert, key) == IF key \in DOMAIN alert THEN alert[key] ELSE ""

\* alert.details || alert
Details(alert) == IF "details" \in DOMAIN alert THEN alert.details ELSE alert

\* String.prototype.toLowerCase on the words in use
ToLowerCase(word) ==
    LET LowerCased ==
            [Warning |-> "warning", Watch |-> "watch", Advisory |-> "advisory",
             Statement |-> "statement", Emergency |-> "emergency",
             Extreme |-> "extreme", Severe |-> "severe", SEVERE |-> "severe",
             Moderate |-> "moderate", Tornado |-> "tornado",
             Flood |-> "flood", Wind |-> "wind", Hazard |-> "hazard",
             Outlook |-> "outlook", W |-> "w", A |-> "a", Y |-> "y",
             S |-> "s", F |-> "f", O |-> "o", N |-> "n"]
    IN  IF word \in DOMAIN LowerCased THEN LowerCased[word] ELSE word

\* text.toLowerCase().includes(word)
TextIncludes(text, word) == \E i \in 1..Len(text) : ToLowerCase(text[i]) = word

\* mapNWSSeverity(event)
MapNWSSeverity(event) ==
    IF event = <<>> THEN "Unknown"
    ELSE IF TextIncludes(event, "warning") THEN "Warning"
    ELSE IF TextIncludes(event, "watch") THEN "Watch"
    ELSE IF TextIncludes(event, "advisory") THEN "Advisory"
    ELSE IF TextIncludes(event, "statement") THEN "Statement"
    ELSE IF TextIncludes(event, "emergency") THEN "Extreme"
    ELSE "Unknown"

\* mapOpenWeatherSeverity(tags)
MapOpenWeatherSeverity(tags) ==
    IF tags = <<>> THEN "Unknown"
    ELSE IF TextIncludes(tags, "extreme") THEN "Extreme"
    ELSE IF TextIncludes(tags, "severe") THEN "Severe"
    ELSE IF TextIncludes(tags, "warning") THEN "Warning"
    ELSE IF TextIncludes(tags, "watch") THEN "Watch"
    ELSE IF TextIncludes(tags, "advisory") THEN "Advisory"
    ELSE IF TextIncludes(tags, "moderate") THEN "Moderate"
    ELSE "Unknown"

\* details.significance || details.priority: a text, a number, or nothing
\* truthy
SeverityValue(details) ==
    LET significance == GetString(details, "significance")
        priority == Get(details, "priority")
    IN  IF significance # "" THEN [text |-> significance]
        ELSE IF priority # <<>> /\ priority[1] # 0
             THEN [number |-> priority[1]]
        ELSE [falsy |-> TRUE]

\* mapSeverity(value): the significance codes of XWeather, then parseInt
\* and the bands of a priority number, then the text severities, then the
\* value itself
MapSeverity(value) ==
    LET severityMap ==
            [w |-> "Warning", a |-> "Watch", y |-> "Advisory",
             s |-> "Statement", f |-> "Forecast", o |-> "Outlook",
             n |-> "Synopsis"]
        textMap ==
            [extreme |-> "Extreme", severe |-> "Severe",
             moderate |-> "Moderate", minor |-> "Minor",
             warning |-> "Warning", watch |-> "Watch",
             advisory |-> "Advisory"]
        \* parseInt on the texts in use that start with a digit
        Numerals == [text \in {"3", "9"} |-> IF text = "3" THEN 3 ELSE 9]
        PriorityBand(priorityNum) ==
            IF priorityNum <= 2 THEN "Extreme"
            ELSE IF priorityNum <= 4 THEN "Severe"
            ELSE IF priorityNum <= 6 THEN "Moderate"
            ELSE IF priorityNum <= 8 THEN "Minor"
            ELSE "Unknown"
    IN  IF "falsy" \in DOMAIN value THEN "Unknown"
        ELSE IF "number" \in DOMAIN value THEN PriorityBand(value.number)
        ELSE LET valueStr == ToLowerCase(value.text)
             IN  IF valueStr \in DOMAIN severityMap
                 THEN severityMap[valueStr]
                 ELSE IF value.text \in DOMAIN Numerals
                      THEN PriorityBand(Numerals[value.text])
                 ELSE IF valueStr \in DOMAIN textMap
                      THEN textMap[valueStr]
                 ELSE value.text

\* Date.now() printed by Array.prototype.join: thirteen digits, the last
\* four of which are the milliseconds run by the clock.
DateNow(t) ==
    LET Digit(n) == <<"0", "1", "2", "3", "4", "5", "6", "7", "8", "9">>[n + 1]
    IN  <<"1", "7", "9", "4", "0", "0", "0", "0", "0",
          Digit(t \div 1000), Digit((t \div 100) % 10),
          Digit((t \div 10) % 10), Digit(t % 10)>>

\* Buffer.from(text).toString('base64').slice(0, IdLength): four characters
\* of base64 stand for three bytes, so the result stands for the first
\* (IdLength \div 4) * 3 bytes of text, in another alphabet than text.
IdLength == 24
Base64Slice(text) ==
    LET bytes == (IdLength \div 4) * 3
    IN  <<"base64">> \o
        SubSeq(text, 1, IF Len(text) < bytes THEN Len(text) ELSE bytes)

\* generateAlertId(alert), called when Date.now() is t
GenerateAlertId(alert, t) ==
    LET details == Details(alert)
        type == IF Get(details, "type") # <<>> THEN Get(details, "type")
                ELSE <<"u", "n", "k", "n", "o", "w", "n">>
        timestamp == IF Get(details, "timestamp") # <<>>
                     THEN Get(details, "timestamp")
                     ELSE DateNow(t)
        zone == Get(details, "zone")
    IN  Base64Slice(type \o <<"-">> \o timestamp \o <<"-">> \o zone)

\* formatNWSAlert(rawAlert, location)
FormatNWSAlert(raw, t) ==
    [alert_id |-> IF Get(raw, "id") # <<>> THEN Get(raw, "id")
                  ELSE GenerateAlertId(raw, t),
     event |-> IF Get(raw, "event") # <<>> THEN Get(raw, "event")
               ELSE <<"Weather", "Alert">>,
     severity |-> IF GetString(raw, "severity") # ""
                  THEN GetString(raw, "severity")
                  ELSE MapNWSSeverity(Get(raw, "event")),
     headline |-> IF Get(raw, "headline") # <<>>
                  THEN Get(raw, "headline")
                  ELSE Get(raw, "event")]

\* formatOpenWeatherMapAlert(rawAlert, location)
FormatOpenWeatherMapAlert(raw, t) ==
    IF /\ Get(raw, "event") # <<>>
       /\ \/ Get(raw, "headline") # <<>>
          \/ Get(raw, "areaDesc") # <<>>
          \/ Get(raw, "senderName") # <<>>
    THEN FormatNWSAlert(raw, t)
    ELSE [alert_id |-> GenerateAlertId(raw, t),
          event |-> IF Get(raw, "event") # <<>>
                    THEN Get(raw, "event")
                    ELSE <<"Weather", "Alert">>,
          severity |-> MapOpenWeatherSeverity(Get(raw, "tags")),
          headline |-> Get(raw, "event"),
          tags |-> Get(raw, "tags")]

\* formatXWeatherAlert(rawAlert, location)
FormatXWeatherAlert(raw, t) ==
    LET details == Details(raw)
    IN  [alert_id |-> IF Get(details, "id") # <<>> THEN Get(details, "id")
                      ELSE IF Get(raw, "id") # <<>>
                           THEN Get(raw, "id")
                      ELSE GenerateAlertId(raw, t),
         event |-> IF Get(details, "name") # <<>> THEN Get(details, "name")
                   ELSE Get(details, "type"),
         severity |-> MapSeverity(SeverityValue(details)),
         headline |-> Get(details, "name")]

\* formatAlerts(rawAlerts, location), for one element of rawAlerts
FormatAlert(alert, t) ==
    LET provider == IF apiProvider # "" THEN apiProvider ELSE "openweathermap"
    IN  IF provider = "openweathermap"
        THEN FormatOpenWeatherMapAlert(alert, t)
        ELSE FormatXWeatherAlert(alert, t)

\* Raw alerts in the shape api.weather.gov returns them (fetchNWSAlerts)
NWSAlerts ==
    {[id |-> id, event |-> event, headline |-> event, severity |-> severity,
      senderName |-> <<"NWS">>] :
        id \in {<<>>, <<"u", "r", "n", ":", "1">>},
        event \in {<<"Tornado", "Warning">>, <<"Flood", "Watch">>,
                   <<"Red", "Flag">>},
        severity \in {"", "Severe", "Minor"}}

\* Raw alerts in the shape of OpenWeatherMap: an event name and tags
OpenWeatherMapAlerts ==
    {[event |-> event, tags |-> tags] :
        event \in {<<>>, <<"Flood", "Warning">>},
        tags \in {<<>>, <<"Flood">>, <<"Extreme", "temperature">>,
                  <<"Wind", "Moderate">>, <<"Severe", "Watch">>}}

\* Raw alerts in the shape of XWeather: nested details with a type, a
\* significance letter or text, or a priority number
XWeatherAlerts ==
    LET TypeCode == <<"T", "O", ".", "W">> IN
    {[id |-> id,
      details |-> [type |-> TypeCode, name |-> <<"Tornado", "Warning">>,
                   timestamp |-> timestamp, zone |-> zone,
                   significance |-> "W"]] :
        id \in {<<>>, <<"x", "1">>},
        timestamp \in {<<>>, <<"1", "7", "9", "4", "0", "0", "0", "0",
                                "0", "0">>},
        zone \in {<<>>, <<"T", "X", "1">>}}
    \cup
    {[id |-> <<"x", "1">>,
      details |-> [type |-> TypeCode, significance |-> significance]] :
        significance \in {"W", "a", "y", "s", "f", "O", "n", "Extreme",
                          "SEVERE", "minor", "Hazard", "3", "9"}}
    \cup
    {[id |-> <<"x", "1">>,
      details |-> [type |-> TypeCode, priority |-> <<priority>>]] :
        priority \in {0, 2, 4, 6, 8, 24}}
    \cup
    {[type |-> TypeCode, zone |-> <<"T", "X", "1">>]}

\* fetchAlertsForLocation: the raw alerts the configured provider returns
RawAlerts ==
    IF apiProvider \in {"", "openweathermap"}
    THEN NWSAlerts \cup OpenWeatherMapAlerts
    ELSE XWeatherAlerts

fmtFrame == <<fileVars, schedVars, cyc, marked, ledgerHist, cycleHist,
              jobVars, fcVars, condVars, outVars>>

\* settings.apiProvider || 'openweathermap', as fetchAlertsForLocation and
\* formatAlerts read it
Provider == IF apiProvider # "" THEN apiProvider ELSE "openweathermap"

\* PUT /api/settings with a body that holds apiProvider.  A cycle that has
\* fetched and not yet formatted goes on with what it fetched; otherwise
\* later cycles fetch from the new provider.
PutSettingsApiProvider(provider) ==
    /\ apiProvider' = provider
    /\ IF rawAlert # NoAlert /\ formatted = NoAlert
       THEN UNCHANGED <<rawAlert, formatted, refetched, renormalized,
                        fetchedBy, formattedBy>>
       ELSE /\ rawAlert' = NoAlert
            /\ formatted' = NoAlert
            /\ refetched' = NoAlert
            /\ renormalized' = NoAlert
            /\ fetchedBy' = ""
            /\ formattedBy' = ""
    /\ UNCHANGED <<fmtFrame, clock>>

\* processAllAlerts awaits fetchAllAlerts, which reads the settings and
\* fetches an alert from the provider they name.
FetchAlert(alert) ==
    /\ rawAlert = NoAlert
    /\ alert \in RawAlerts
    /\ rawAlert' = alert
    /\ fetchedBy' = Provider
    /\ UNCHANGED <<fmtFrame, apiProvider, clock, formatted, refetched,
                   renormalized, formattedBy>>

\* The fetch has answered: formatAlerts reads the settings and formats the
\* alert.
FormatFetched ==
    /\ rawAlert # NoAlert
    /\ formatted = NoAlert
    /\ formatted' = FormatAlert(rawAlert, clock)
    /\ formattedBy' = Provider
    /\ UNCHANGED <<fmtFrame, apiProvider, clock, rawAlert, refetched,
                   renormalized, fetchedBy>>

\* A later cycle fetches the same alert from the same provider and formats
\* it.
RefetchAlert ==
    /\ formatted # NoAlert
    /\ fetchedBy = Provider
    /\ refetched' = FormatAlert(rawAlert, clock)
    /\ UNCHANGED <<fmtFrame, apiProvider, clock, rawAlert, formatted,
                   renormalized, fetchedBy, formattedBy>>

\* formatAlerts is applied to its own output.
RenormalizeAlert ==
    /\ formatted # NoAlert
    /\ renormalized' = FormatAlert(formatted, clock)
    /\ UNCHANGED <<fmtFrame, apiProvider, clock, rawAlert, formatted,
                   refetched, fetchedBy, formattedBy>>

\* Half a second of wall-clock time passes.
ClockTick ==
    /\ clock < MaxClock
    /\ clock' = clock + 500
    /\ UNCHANGED <<fmtFrame, apiProvider, rawAlert, formatted, refetched,
                   renormalized, fetchedBy, formattedBy>>

NextFormat ==
    \/ \E provider \in {"openweathermap", "xweather"} :
           PutSettingsApiProvider(provider)
    \/ /\ rawAlert = NoAlert
       /\ \E alert \in RawAlerts : FetchAlert(alert)
    \/ FormatFetched
    \/ RefetchAlert
    \/ RenormalizeAlert
    \/ ClockTick

SpecFormat == Init /\ [][NextFormat]_vars

\* ------------------------------------------------------------------------
\* Properties of the ledger
\* ------------------------------------------------------------------------
\* Positions of batch whose id is not stored for loc.
KeptIdx(store, loc, batch) ==
    {i \in 1..Len(batch) : batch[i] \notin Range(store[loc])}

\* out is batch restricted to the positions K, in the order of batch.
IsSubSeqAt(out, batch, K) ==
    /\ Len(out) = Cardinality(K)
    /\ \A i \in K : out[Cardinality({j \in K : j <= i})] = batch[i]

\* Number of occurrences of x in s.
Count(s, x) == Cardinality({i \in 1..Len(s) : s[i] = x})

\* The last n elements of s.
LastN(s, n) ==
    LET k == IF Len(s) < n THEN Len(s) ELSE n
    IN  [i \in 1..k |-> s[Len(s) - k + i]]

\* C3: filterNewAlerts returns exactly the alerts whose alert_id is not in
\* the stored list of the location, in the order of its input, and the
\* empty list for an empty input.
C3_FilterExact ==
    lastOp.op = "filter" =>
        /\ IsSubSeqAt(lastOp.out, lastOp.batch,
                      KeptIdx(ledger, lastOp.loc, lastOp.batch))
        /\ lastOp.batch = <<>> => lastOp.out = <<>>

\* A filter call that kept some alerts of its input and dropped others.
C3_Witness ==
    /\ lastOp.op = "filter"
    /\ lastOp.out # <<>>
    /\ Len(lastOp.out) < Len(lastOp.batch)
    /\ ledger[lastOp.loc] # <<>>

\* C4: markAlertsSent is idempotent: marking the same alerts again leaves
\* the stored list as it was, and no call stores an id it finds stored one
\* more time.
C4_MarkIdempotent ==
    lastOp.op = "mark" =>
        /\ lastOp.again => ledger[lastOp.loc] = lastOp.before
        /\ \A x \in Range(lastOp.before) :
               Count(ledger[lastOp.loc], x) <= Count(lastOp.before, x)

\* C5: the stored list of a location never holds more than 100 ids.
C5_LedgerBounded ==
    \A l \in Locs : Len(ledger[l]) <= LedgerCap

\* A mark call on a non-empty list that went past the cap and was trimmed.
C5_Witness ==
    /\ lastOp.op = "mark"
    /\ Len(lastOp.before) > 0
    /\ Len(lastOp.before) + Len(lastOp.batch) > LedgerCap
    /\ Len(ledger[lastOp.loc]) = LedgerCap

\* C6: when distinct ids are marked for a location, the stored list is the
\* most recent 100 of them: the oldest ids are the ones evicted.
C6_EvictOldestFirst ==
    \A l \in Locs :
        Distinct(marked[l]) => ledger[l] = LastN(marked[l], LedgerCap)

\* The 101st distinct id was marked and the first one is gone.
C6_Witness ==
    \E l \in Locs :
        /\ lastOp.op = "mark" /\ lastOp.loc = l
        /\ lastOp.before # <<>> /\ lastOp.batch # <<>>
        /\ Len(marked[l]) = LedgerCap + 1
        /\ Distinct(marked[l])
        /\ ledger[l] = Tail(marked[l])
        /\ marked[l][1] \notin Range(ledger[l])

\* C7: filtering a batch of at most 100 alerts right after marking it
\* returns the empty list; filtering against an empty stored list returns
\* the whole input.
C7_MarkThenFilterEmpty ==
    lastOp.op = "filter" =>
        /\ (lastOp.again /\ Len(lastOp.batch) <= LedgerCap) => lastOp.out = <<>>
        /\ ledger[lastOp.loc] = <<>> => lastOp.out = lastOp.batch

\* A batch was marked on top of other ids and then filtered to nothing.
C7_Witness ==
    /\ lastOp.op = "filter"
    /\ lastOp.again
    /\ lastOp.batch # <<>>
    /\ Len(lastOp.batch) <= LedgerCap
    /\ \E i \in 1..Len(ledger[lastOp.loc]) :
           ledger[lastOp.loc][i] \notin Range(lastOp.batch)
    /\ lastOp.out = <<>>

\* ------------------------------------------------------------------------
\* Properties of the alert cycle
\* ------------------------------------------------------------------------
\* C1: with cycles one after the other, no clearing, no stop of the process,
\* distinct ids in every batch and fewer than 100 ids delivered, an alert_id
\* the webhook accepted for a location is not POSTed for it again.
C1_NoRepost ==
    \A c \in Slots :
        (/\ cyc[c].pc = "posting"
         /\ Cardinality(delivered[CurLoc(cyc[c])]) < LedgerCap)
            => CurId(cyc[c]) \notin delivered[CurLoc(cyc[c])]

\* s is the beginning of t.
IsPrefix(s, t) == Len(s) <= Len(t) /\ SubSeq(t, 1, Len(s)) = s

\* Alerts of the batch of r with id x whose POST returned success.
Acked(r, x) ==
    {i \in 1..Len(r.newAlerts) : i <= Len(r.res) /\ r.res[i] /\ r.newAlerts[i] = x}

\* C2: every alert_id a cycle writes to a location's ledger belongs to an
\* alert whose POST returned success earlier in the same cycle: a step that
\* adds ids to a stored list is the step of a cycle that has sent the whole
\* batch of that location, and it adds each id once per successful alert.
C2_StoresOnlyDelivered ==
    [][\A l \in Locs :
          (ledger'[l] # ledger[l] /\ ledger'[l] # <<>>) =>
              \E c \in Slots :
                  /\ cyc[c].pc = "delay"
                  /\ cyc[c].si = Len(cyc[c].newAlerts)
                  /\ CurLoc(cyc[c]) = l
                  /\ IsPrefix(ledger[l], ledger'[l])
                  /\ \A x \in Ids :
                         Count(SubSeq(ledger'[l], Len(ledger[l]) + 1, Len(ledger'[l])), x)
                             = Cardinality(Acked(cyc[c], x))]_vars

\* A cycle is over in which one alert was stored and another, whose POST
\* failed, was not.
C2_Witness ==
    /\ \A c \in Slots : ~InFlight(c)
    /\ \E l \in Locs :
           /\ ledger[l] # <<>>
           /\ \E i \in failedLast[l] : i \notin delivered[l] /\ i \notin Range(ledger[l])

\* The step in which invocation c returns or is stopped.
Ends(c) == InFlight(c) /\ cyc'[c].pc = "idle"

C9_StoredWereDelivered ==
    \A l \in Locs : Range(ledger[l]) \subseteq delivered[l]

\* After a stop between delivery and commit, a cycle POSTs the delivered
\* alert again.
C9_Witness ==
    \E c \in Slots :
        /\ cyc[c].pc = "posting"
        /\ CurId(cyc[c]) \in lost[CurLoc(cyc[c])]
        /\ CurId(cyc[c]) \in delivered[CurLoc(cyc[c])]
        /\ CurId(cyc[c]) \notin Range(ledger[CurLoc(cyc[c])])

\* C10: there is no reentrancy guard: while invocations are in flight, a
\* run-now request starts another one, and so does a live cron task.
C10_NoReentrancyGuard ==
    \A c \in Slots :
        FirstFree(c) =>
            /\ ENABLED TriggerNow(c)
            /\ liveTasks # {} => ENABLED CronFire(c)

\* Two overlapping cycles POST the same alert_id of the same location.
C10_Witness ==
    \E c, d \in Slots :
        /\ c # d
        /\ cyc[c].pc = "posting" /\ cyc[d].pc = "posting"
        /\ CurLoc(cyc[c]) = CurLoc(cyc[d])
        /\ CurId(cyc[c]) = CurId(cyc[d])
        /\ liveTasks # {}

\* ------------------------------------------------------------------------
\* Properties of the relay
\* ------------------------------------------------------------------------
\* The step in which invocation c leaves sendAlertsToWebhook: by its return
\* or by an exception.
LeavesRelay(c) ==
    /\ cyc[c].pc \in {"posting", "delay"}
    /\ \/ cyc'[c].pc \notin {"posting", "delay"}
       \/ cyc'[c].li # cyc[c].li

\* C11: sendAlertsToWebhook attempts every record once, in input order, and
\* ends with one outcome per record, whatever the kind of failure: when an
\* invocation leaves the relay, it has as many outcomes as records.
C11_OneOutcomePerRecord ==
    [][\A c \in Slots :
          LeavesRelay(c) => Len(cyc[c].res) = Len(cyc[c].newAlerts)]_vars

\* Entries of fetchResult.results after the one being delivered whose
\* alerts are new against the ledger store.
Unvisited(r, store) ==
    {k \in (r.li + 1)..Len(r.results) :
        FilterNewAlerts(store, r.results[k].loc, r.results[k].alerts) # <<>>}

\* The entries left unvisited when invocation r ends, other than the one
\* whose delivery failed: the failing one is the entry being delivered when
\* alerts of its batch are unsent, the first unvisited one otherwise.
OthersLeft(r, store) ==
    LET U == Unvisited(r, store)
    IN  IF r.si < Len(r.newAlerts) THEN U
        ELSE {k \in U : \E j \in U : j < k}

\* C12: a delivery failure for one location does not abort the processing
\* of the other locations: an invocation that is delivering a location's
\* batch does not end while another location, fetched after it, has new
\* alerts that were not passed to the relay.
C12_OtherLocationsProcessed ==
    [][\A c \in Slots :
          (Ends(c) /\ cyc[c].pc \in {"posting", "delay"}) =>
              OthersLeft(cyc[c], ledger') = {}]_vars

\* ------------------------------------------------------------------------
\* Properties of the orchestrators
\* ------------------------------------------------------------------------
\* C13: every invocation of processAllAlerts, processAllConditions and
\* processDailyForecasts ends by returning its summary with endTime and
\* duration set; when the catch block of the cycle was entered, the
\* returned summary's errors hold an entry for 'System'.
C13_ReturnsFinalSummary ==
    (job.pc = "idle" /\ job.n > 0) =>
        /\ returned.n = job.n
        /\ returned.summary.endTime
        /\ returned.summary.duration
        /\ returned.caught => Includes(returned.summary.errors, "System")

\* The last invocation, an alert or a condition cycle over some locations,
\* has returned after an exception.
C13_Witness ==
    /\ job.pc = "idle"
    /\ returned.n = MaxRuns
    /\ returned.kind # "forecasts"
    /\ returned.caught
    /\ returned.enabled > 0
    /\ returned.summary.endTime

\* C14: every cycle passes through finalization before it is idle again:
\* the last log entry is its completion entry carrying the returned summary,
\* and alert and forecast cycles have stored their last run time.
C14_FinalizedBeforeIdle ==
    (job.pc = "idle" /\ job.n > 0) =>
        /\ logs[Len(logs)] = [action |-> CompleteAction(returned.kind),
                              details |-> returned.summary]
        /\ returned.kind = "alerts" => lastRun.lastSchedulerRun = job.n
        /\ returned.kind = "forecasts" => lastRun.lastForecastRun = job.n

\* C15: in a forecast cycle a fetch failure of a location is captured under
\* that location in the summary's errors and does not abort the cycle, also
\* when every enabled location fails.
C15_ForecastFetchErrorsCaptured ==
    (job.pc = "idle" /\ returned.kind = "forecasts" /\ returned.enabled > 0) =>
        /\ \A i \in 1..Len(returned.errors) :
               Includes(returned.summary.errors, returned.errors[i])
        /\ ~returned.caught

\* ------------------------------------------------------------------------
\* Schedulers
\* ------------------------------------------------------------------------
\* A scheduler is running with the expression its settings give.
IntervalUpToDate ==
    /\ scheduleEnabled
    /\ scheduledTask # 0
    /\ currentCronExpression = FrequencyToCron(scheduleFrequency)

ForecastUpToDate ==
    /\ forecastEnabled
    /\ forecastTask # 0
    /\ TimeToCronReturns(forecastTime)
    /\ currentForecastCron = TimeToCron(forecastTime)

\* C16: startScheduler, called while a trigger is active and the expression
\* derived from the settings is the active one, changes neither the handle
\* nor the expression, stops nothing and creates no trigger; the same holds
\* of startForecastScheduler, which setForecastEnabled(true) calls.
C16_StartUnchangedIsNoOp ==
    [][/\ (IntervalUpToDate /\ StartScheduler) => UNCHANGED schedVars
       /\ (ForecastUpToDate /\ SetForecastEnabled(TRUE))
              => UNCHANGED <<forecastTask, currentForecastCron,
                             liveForecastTasks>>]_vars

\* Both schedulers are running with the expression their settings give, so
\* that a start call meets its test for an unchanged configuration.
C16_Witness == IntervalUpToDate /\ ForecastUpToDate

\* C17: a scheduler whose enabled flag in the settings is false has no
\* active trigger.
C17_DisabledHasNoTrigger ==
    /\ ~scheduleEnabled => scheduledTask = 0
    /\ ~forecastEnabled => forecastTask = 0

\* C18: restartScheduler, updateFrequency, restartForecastScheduler and
\* updateForecastTime, called on a running scheduler with a configuration
\* whose derived expression is the active one, leave the trigger handle in
\* place.
C18_ReplacedOnlyIfChanged ==
    [][/\ ( /\ RestartScheduler \/ \E f \in Frequencies : UpdateFrequency(f)
            /\ scheduledTask # 0
            /\ scheduleEnabled
            /\ FrequencyToCron(scheduleFrequency') = currentCronExpression )
          => scheduledTask' = scheduledTask
       /\ ( /\ RestartForecastScheduler \/ \E t \in Times : UpdateForecastTime(t)
            /\ forecastTask # 0
            /\ forecastEnabled
            /\ TimeToCronReturns(forecastTime')
            /\ TimeToCron(forecastTime') = currentForecastCron )
          => forecastTask' = forecastTask]_vars

\* C19: when the job awaited in a trigger callback rejects, the callback
\* logs the error itself, the scheduler keeps its handle and expression and
\* the task stays live, so that the next trigger runs the callback again.
C19_CallbackCatches ==
    [][/\ SchedulerCallback(TRUE)
            => /\ logs'[Len(logs')].action = "scheduler_error"
               /\ UNCHANGED schedVars
               /\ scheduledTask' \in liveTasks'
       /\ ForecastCallback(TRUE)
            => /\ logs'[Len(logs')].action = "forecast_scheduler_error"
               /\ UNCHANGED <<forecastTask, currentForecastCron,
                              liveForecastTasks>>
               /\ forecastTask' \in liveForecastTasks']_vars

\* A callback has logged the error of its job, and both tasks are live.
C19_Witness ==
    /\ Len(logs) = 2
    /\ logs[2].action \in {"scheduler_error", "forecast_scheduler_error"}
    /\ scheduledTask \in liveTasks
    /\ forecastTask \in liveForecastTasks

\* C20: stopping, disabling or restarting the scheduler leaves a cycle in
\* flight as it is; the cycle's next step stays possible, the cycle comes to
\* its end, and when it ends every alert the webhook accepted is stored.
\* While no task is live no trigger fires.
C20_NoMidCycleCancellation ==
    /\ [][(schedVars' # schedVars \/ scheduleEnabled' # scheduleEnabled)
              => UNCHANGED <<cyc, ledger, marked, cycleHist>>]_vars
    /\ [](\A c \in Slots : InFlight(c) => ENABLED Advance(c))
    /\ [](liveTasks = {} => \A c \in Slots : ~ENABLED CronFire(c))
    /\ [][\A c \in Slots : Ends(c) =>
              \A l \in Locs : delivered'[l] \subseteq Range(ledger'[l])]_vars
    /\ \A c \in Slots : InFlight(c) ~> ~InFlight(c)

\* A scheduled cycle is between two POSTs, one alert was accepted and one
\* is still to be sent, and the scheduler is disabled with no live task.
C20_Witness ==
    \E c \in Slots :
        /\ cyc[c].pc = "delay"
        /\ cyc[c].si < Len(cyc[c].newAlerts)
        /\ delivered[CurLoc(cyc[c])] # {}
        /\ ~scheduleEnabled
        /\ liveTasks = {}

\* ------------------------------------------------------------------------
\* Trigger expressions
\* ------------------------------------------------------------------------
\* The trigger a frequency of N minutes stands for: every minute, every N
\* minutes, hourly, every H hours when N is H whole hours and H divides the
\* 24 hours of a day, and otherwise once a day.
TriggerOf(N) ==
    IF N = 1 THEN Cron(Star, Star)
    ELSE IF N < 60 THEN Cron(Step(N), Star)
    ELSE IF N = 60 THEN Cron(At(0), Star)
    ELSE IF N < 1440 /\ N % 60 = 0 /\ 24 % (N \div 60) = 0
         THEN Cron(At(0), Step(N \div 60))
    ELSE Cron(At(0), At(0))

\* C21: the expression the interval scheduler runs with is the trigger its
\* frequency stands for, for every frequency in 1..1440.
C21_FrequencyToTrigger ==
    scheduledTask # 0 => currentCronExpression = TriggerOf(scheduleFrequency)

\* An "HH:MM" text with hour 00..23 and minute 00..59 (the hour may be
\* written with one digit).
ValidTime(t) ==
    /\ Len(t[1]) \in 1..2 /\ ParseInt(t[1]) <= 23
    /\ Len(t[2]) = 2 /\ ParseInt(t[2]) <= 59

\* The trigger that fires once a day at the hour and minute of t.
DailyAt(t) == Cron(At(ParseInt(t[2])), At(ParseInt(t[1])))

\* C22: the stored forecast time changes only to a valid "HH:MM" text, and
\* the trigger that is active afterwards fires once a day at that hour and
\* minute; any other value leaves the stored time as it was.
C22_ForecastTimeValidated ==
    [][forecastTime' # forecastTime =>
          /\ ValidTime(forecastTime')
          /\ forecastTask' # 0 => currentForecastCron' = DailyAt(forecastTime')]_vars

\* ------------------------------------------------------------------------
\* Clearing the ledger of a location
\* ------------------------------------------------------------------------
\* C23: after clearForLocation(loc) the list stored for loc is empty, and as
\* long as markAlertsSent has stored nothing for loc since, filterNewAlerts
\* returns every batch whole.
C23_ClearedTreatsAllAsNew ==
    /\ lastOp.op = "clear" => ledger[lastOp.loc] = <<>>
    /\ \A loc \in Locs :
           marked[loc] = <<>> =>
               \A A \in LedgerBatches : FilterNewAlerts(ledger, loc, A) = A
    /\ (lastOp.op = "filter" /\ marked[lastOp.loc] = <<>>)
           => lastOp.out = lastOp.batch

\* clearForLocation has just emptied a list that held ids.
C23_Witness ==
    /\ lastOp.op = "clear"
    /\ lastOp.before # <<>>
    /\ marked[lastOp.loc] = <<>>

\* C24: a location that was deleted through the admin API has an empty list
\* of stored ids, in the state after the deletion and in every later one.
C24_DeletedStaysCleared ==
    \A loc \in Locs \ locations : ledger[loc] = <<>>

\* ------------------------------------------------------------------------
\* The conditions cycle and the classifier
\* ------------------------------------------------------------------------
\* A step that processes the fetched entry of a location.
ProcessesEntry == condFetched # NoResult /\ condFetched' = NoResult

\* C25: a snapshot whose temperature differs by 5 degrees or more from the
\* last delivered snapshot of its location is POSTed, whatever the rest of
\* the decision gate says.
C25_TemperatureMoveDelivers ==
    [][(/\ ProcessesEntry
        /\ lastConditions[condFetched.loc] # NoCondition
        /\ AbsDiff(condFetched.conditions.temp,
                   lastConditions[condFetched.loc].temperature) >= 5)
           => condPosted']_vars

\* C26: when the settings say to send always, every fetched snapshot is
\* POSTed.
C26_AlwaysSendDelivers ==
    [][(ProcessesEntry /\ ~condFetched.sendOnlyBadWeather) => condPosted']_vars

\* The levels in the order good < fair < bad < severe.
Rank(level) ==
    CHOOSE i \in 1..4 : <<"good", "fair", "bad", "severe">>[i] = level

\* The bands of the rules that a reading triggers.
TriggeredBands(c) ==
    {"good"}
    \cup (IF c.temp > 95 \/ c.temp < 32 THEN {"bad"}
          ELSE IF c.temp < 40 \/ c.temp > 90 THEN {"fair"} ELSE {})
    \cup (IF /\ AbsDiff(c.feelsLike, c.temp) > 10
             /\ (c.feelsLike > 100 \/ c.feelsLike < 25) THEN {"bad"} ELSE {})
    \cup (IF c.windSpeed > 25 THEN {"bad"}
          ELSE IF c.windSpeed > 15 THEN {"fair"} ELSE {})
    \cup (IF c.rain > 50 THEN {"bad"} ELSE IF c.rain > 0 THEN {"fair"} ELSE {})
    \cup (IF c.snow > 0 THEN {"bad"} ELSE {})
    \cup (IF c.humidity > 85 THEN {"fair"} ELSE {})
    \cup (IF c.visibility # 0 /\ c.visibility < 10 THEN {"bad"} ELSE {})
    \cup (IF c.description \cap {"thunderstorm", "storm", "tornado", "hurricane"} # {}
          THEN {"severe"} ELSE {})
    \cup (IF c.description \cap {"fog", "mist", "haze"} # {} THEN {"fair"} ELSE {})

MostSevere(bands) ==
    CHOOSE b \in bands : \A other \in bands : Rank(other) <= Rank(b)

\* C30: the level classifyWeather returns is the most severe band among the
\* rules the reading triggers, and it is severe whenever the description
\* holds storm, thunderstorm, tornado or hurricane.
C30_MostSevereBandWins ==
    condFetched # NoResult =>
        LET c == condFetched.conditions
            level == condFetched.classification.classification
        IN  /\ level = MostSevere(TriggeredBands(c))
            /\ c.description \cap {"thunderstorm", "storm", "tornado", "hurricane"} # {}
                   => level = "severe"

\* A reading whose temperature makes it bad also triggers the humidity rule,
\* which comes later and stands for fair, and its description holds none of
\* the words for severe.
C30_Witness ==
    /\ condFetched # NoResult
    /\ condFetched.conditions.temp > 95
    /\ condFetched.conditions.humidity > 85
    /\ condFetched.conditions.description = {"fog"}
    /\ condFetched.classification.classification = "bad"

\* ------------------------------------------------------------------------
\* Properties of the alert formatter
\* ------------------------------------------------------------------------
\* The id the provider gave the alert, <<>> when it gave none.
NativeId(alert) ==
    IF Get(Details(alert), "id") # <<>> THEN Get(Details(alert), "id")
    ELSE Get(alert, "id")

\* The type, timestamp and zone of a raw alert.
IdKey(alert) ==
    <<Get(Details(alert), "type"), Get(Details(alert), "timestamp"),
      Get(Details(alert), "zone")>>

\* C27: alert_id is stable: formatting the same raw alert at two fetches
\* gives the same alert_id, which is the provider's id when there is one
\* and otherwise depends on the type, timestamp and zone only.
C27_AlertIdStable ==
    /\ (formatted # NoAlert /\ refetched # NoAlert)
           => refetched.alert_id = formatted.alert_id
    /\ (formatted # NoAlert /\ NativeId(rawAlert) # <<>>)
           => formatted.alert_id = NativeId(rawAlert)
    /\ (formatted # NoAlert /\ NativeId(rawAlert) = <<>>)
           => \A other \in RawAlerts, t \in 0..1 :
                  (NativeId(other) = <<>> /\ IdKey(other) = IdKey(rawAlert))
                      => FormatAlert(other, t * MaxClock).alert_id
                             = formatted.alert_id

\* C28: formatting a raw alert and formatting the result again gives the
\* alert_id of the first formatting.
C28_RoundTripKeepsAlertId ==
    (formatted # NoAlert /\ renormalized # NoAlert)
        => renormalized.alert_id = formatted.alert_id

\* C29: the severity of every formatted alert is in the fixed set.
SeverityEnumeration ==
    {"Extreme", "Severe", "Warning", "Watch", "Advisory", "Moderate",
     "Minor", "Statement", "Unknown"}
C29_SeverityInEnumeration ==
    /\ formatted # NoAlert => formatted.severity \in SeverityEnumeration
    /\ refetched # NoAlert => refetched.severity \in SeverityEnumeration

\* ------------------------------------------------------------------------
\* Properties of the classifier: wind
\* ------------------------------------------------------------------------
\* C31: a reading whose windSpeed is above 25 mph is classified with
\* isBad = TRUE, whatever its other fields are.
C31_StrongWindIsBad ==
    (condFetched # NoResult /\ condFetched.conditions.windSpeed > 25)
        => condFetched.classification.isBad

\* A pleasant, humid, foggy reading with strong wind: the wind rule alone
\* makes it bad, and the humidity and fog rules come after it.
C31_Witness ==
    /\ condFetched # NoResult
    /\ condFetched.conditions.windSpeed > 25
    /\ condFetched.conditions.temp = 70
    /\ condFetched.conditions.feelsLike = 70
    /\ condFetched.conditions.humidity > 85
    /\ condFetched.conditions.rain = 0
    /\ condFetched.conditions.snow = 0
    /\ condFetched.conditions.visibility = 100
    /\ condFetched.conditions.description = {"fog"}
    /\ condFetched.classification.classification = "bad"

\* ------------------------------------------------------------------------
\* Properties of a cycle under a change of provider
\* ------------------------------------------------------------------------
\* C35: an alert is formatted for the provider that fetched it, also when
\* the provider setting changes between the fetch and the formatting.
C35_FormattedByFetchingProvider ==
    formatted # NoAlert => formattedBy = fetchedBy

\* ------------------------------------------------------------------------
\* Properties of the admin requests
\* ------------------------------------------------------------------------
\* The stored settings and the interval scheduler.
Settings == <<webhookUrl, scheduleFrequency, scheduleEnabled, forecastEnabled,
             forecastTime>>

\* C32: a settings update whose webhookUrl fails validateWebhookUrl is
\* answered with an error and leaves every stored setting and the scheduler
\* unchanged, and an update that holds only a URL that passes validation is
\* accepted and the URL is stored.
C32_InvalidWebhookUrlRejected ==
    [][\A u \in WebhookUpdates :
          (PutSettings(u) /\ u.webhookUrl # <<>>) =>
              IF ~ValidateWebhookUrl(u.webhookUrl[1])
              THEN /\ reply'.status = 400
                   /\ UNCHANGED <<Settings, schedVars>>
              ELSE u.scheduleFrequency = <<>> =>
                       /\ reply'.status = 200
                       /\ webhookUrl' = u.webhookUrl[1]]_vars


C33_OneForecastPerDay == \A loc \in Locs : forecastsToday[loc] <= 1

\* C36: the Summary an alert cycle returns has totalAlertsFetched =
\* newAlerts + duplicatesSkipped and alertsSent + alertsFailed = newAlerts,
\* also when the cycle ended with a per-location or System error.
C36_SummaryAddsUp ==
    returned.kind = "alerts" =>
        /\ returned.summary.totalAlertsFetched =
               returned.summary.newAlerts + returned.summary.duplicatesSkipped
        /\ returned.summary.alertsSent + returned.summary.alertsFailed =
               returned.summary.newAlerts


C37_OneLiveTrigger ==
    /\ liveTasks \subseteq {scheduledTask} \ {0}
    /\ liveForecastTasks \subseteq {forecastTask} \ {0}
    /\ scheduledTask # 0 <=> currentCronExpression # NullCron
    /\ forecastTask # 0 <=> currentForecastCron # NullCron


\* Both schedulers run, the interval scheduler on a trigger that replaced an
\* earlier one.
C37_Witness ==
    /\ scheduledTask > 1
    /\ liveTasks = {scheduledTask}
    /\ forecastTask # 0
    /\ liveForecastTasks = {forecastTask}


\* ------------------------------------------------------------------------
\* Properties of the firing times
\* ------------------------------------------------------------------------
\* C39: the trigger of a configured frequency of N minutes fires with a
\* constant period of N minutes: after every firing the next one comes N
\* minutes later and none before, also across the hour and across midnight.
C39_ConstantPeriod ==
    scheduledTask # 0 =>
        \A t \in 0..(MinutesPerDay - 1) :
            Fires(currentCronExpression, t) =>
                /\ Fires(currentCronExpression,
                         (t + scheduleFrequency) % MinutesPerDay)
                /\ \A d \in 1..(scheduleFrequency - 1) :
                      ~Fires(currentCronExpression, (t + d) % MinutesPerDay)

====
